---------------------------- MODULE Spec2Model ----------------------------
(***************************************************************************)
(* pylox: a tree-walking interpreter for Lox.                              *)
(*                                                                         *)
(* The model follows Lox.main -> Lox.run_file -> Lox.run: the scanner and  *)
(* the parser hand over a statement list together with the diagnostics     *)
(* they printed, the Resolver fills Interpreter.locals, and                *)
(* Interpreter.interpret executes the top-level statements one by one.     *)
(* Environments, function objects, classes and instances live in heaps     *)
(* (sequences indexed by object identity).                                 *)
(***************************************************************************)
EXTENDS Integers, Sequences, FiniteSets, TLC

(***************************************************************************)
(* Bounds of the model.                                                    *)
(***************************************************************************)
\* Upper bound on the statements one run may execute (loops, recursion).
MaxSteps == 60
\* Values time.time() may return to a call of clock().
MaxClock == 2

(***************************************************************************)
(* AST: expressions (expressions.py) and statements (statements.py).       *)
(* A node that can be a key of Interpreter.locals carries its identity id. *)
(* Optional children that are None in the source are NoExpr / NoStmt.      *)
(***************************************************************************)
NoExpr == [k |-> "None"]
NoStmt == [k |-> "None"]

Binary(left, operator, right) ==
    [k |-> "Binary", left |-> left, operator |-> operator, right |-> right]
Grouping(expression) == [k |-> "Grouping", expression |-> expression]
Literal(value) == [k |-> "Literal", value |-> value]
Unary(operator, right) == [k |-> "Unary", operator |-> operator, right |-> right]
Variable(id, name) == [k |-> "Variable", id |-> id, name |-> name]
Assign(id, name, value) == [k |-> "Assign", id |-> id, name |-> name, value |-> value]
Logical(left, operator, right) ==
    [k |-> "Logical", left |-> left, operator |-> operator, right |-> right]
Call(callee, arguments) == [k |-> "Call", callee |-> callee, arguments |-> arguments]
Get(object, name) == [k |-> "Get", object |-> object, name |-> name]
Set(object, name, value) ==
    [k |-> "Set", object |-> object, name |-> name, value |-> value]
This(id) == [k |-> "This", id |-> id]
Super(id, method) == [k |-> "Super", id |-> id, method |-> method]

Expression(expression) == [k |-> "Expression", expression |-> expression]
PrintStmt(expression) == [k |-> "Print", expression |-> expression]
Var(name, initializer) == [k |-> "Var", name |-> name, initializer |-> initializer]
Block(statements) == [k |-> "Block", statements |-> statements]
If(condition, then_branch, else_branch) ==
    [k |-> "If", condition |-> condition, then_branch |-> then_branch,
     else_branch |-> else_branch]
While(condition, body) == [k |-> "While", condition |-> condition, body |-> body]
Function(name, params, body) ==
    [k |-> "Function", name |-> name, params |-> params, body |-> body]
Return(value) == [k |-> "Return", value |-> value]
Class(name, superclass, methods) ==
    [k |-> "Class", name |-> name, superclass |-> superclass, methods |-> methods]

(***************************************************************************)
(* Runtime values.  Every value has the same shape: t is the Python type   *)
(* of the object, n its number (float, bool as 0/1, or the identity of a   *)
(* function, class or instance) and s its text (str).                      *)
(***************************************************************************)
Nil == [t |-> "nil", n |-> 0, s |-> ""]
Bool(b) == [t |-> "bool", n |-> IF b THEN 1 ELSE 0, s |-> ""]
Num(x) == [t |-> "float", n |-> x, s |-> ""]
Str(x) == [t |-> "str", n |-> 0, s |-> x]
NativeFn == [t |-> "ClockFunction", n |-> 0, s |-> ""]
FunVal(f) == [t |-> "LoxFunction", n |-> f, s |-> ""]
ClassVal(c) == [t |-> "LoxClass", n |-> c, s |-> ""]
InstVal(i) == [t |-> "LoxInstance", n |-> i, s |-> ""]

\* A dict: a function on the set of its keys.
EmptyDict == [x \in {} |-> Nil]
Put(d, key, value) == [x \in DOMAIN d \cup {key} |-> IF x = key THEN value ELSE d[x]]

(***************************************************************************)
(* Environment (environment.py).  envs is the heap of environments;        *)
(* enclosing = 0 is None.                                                  *)
(***************************************************************************)
NewEnvironment(enclosing) == [enclosing |-> enclosing, values |-> EmptyDict]

EnvDefine(envs, e, name, value) ==
    [envs EXCEPT ![e].values = Put(@, name, value)]

\* Environment.get: the environment of the chain that answers, 0 when the
\* chain ends without one (the RuntimeError of environment.py is raised).
RECURSIVE EnvLookup(_, _, _)
EnvLookup(envs, e, name) ==
    IF name \in DOMAIN envs[e].values THEN e
    ELSE IF envs[e].enclosing # 0 THEN EnvLookup(envs, envs[e].enclosing, name)
    ELSE 0

\* Environment.ancestor: 0 when the walk steps onto enclosing = None.
RECURSIVE EnvAncestor(_, _, _)
EnvAncestor(envs, e, distance) ==
    IF distance <= 0 \/ e = 0 THEN e
    ELSE EnvAncestor(envs, envs[e].enclosing, distance - 1)

(***************************************************************************)
(* Sequencing.  Let(x, F) is F(x) with x computed once, before F uses it:  *)
(* the value a visit returns is bound to a name the way the source binds   *)
(* it to a local, and the steps that follow read that name.                *)
(***************************************************************************)
Let(x, F(_)) == CHOOSE r \in {F(y) : y \in {x}} : TRUE

(***************************************************************************)
(* Resolver (resolver.py).  rs is the resolver's state: the scope stack,   *)
(* the depth table Interpreter.locals it fills, the diagnostics it has     *)
(* printed, current_function and current_class.                            *)
(***************************************************************************)
NewResolver(locals) ==
    [scopes |-> <<>>, locals |-> locals, diags |-> <<>>,
     current_function |-> "NONE", current_class |-> "NONE"]

Report(rs, message) == [rs EXCEPT !.diags = Append(@, message)]

begin_scope(rs) == [rs EXCEPT !.scopes = Append(@, [x \in {} |-> FALSE])]

end_scope(rs) == [rs EXCEPT !.scopes = SubSeq(@, 1, Len(@) - 1)]

\* scopes[-1][name] = flag
SetInnermost(rs, name, flag) ==
    [rs EXCEPT !.scopes[Len(rs.scopes)] =
        [x \in DOMAIN @ \cup {name} |-> IF x = name THEN flag ELSE @[x]]]

declare(rs, name) ==
    IF rs.scopes = <<>> THEN rs
    ELSE IF name \in DOMAIN rs.scopes[Len(rs.scopes)]
    THEN SetInnermost(
            Report(rs, "Error: Already a variable with name '" \o name
                           \o "' in this scope."),
            name, FALSE)
    ELSE SetInnermost(rs, name, FALSE)

define(rs, name) ==
    IF rs.scopes = <<>> THEN rs ELSE SetInnermost(rs, name, TRUE)

\* The innermost scope (an index of rs.scopes) that holds name, 0 when none.
RECURSIVE ScopeOf(_, _, _)
ScopeOf(scopes, i, name) ==
    IF i = 0 THEN 0
    ELSE IF name \in DOMAIN scopes[i] THEN i
    ELSE ScopeOf(scopes, i - 1, name)

\* Interpreter.resolve, line 176: self.locals[expr] = depth
InterpreterResolve(locals, id, depth) ==
    [x \in DOMAIN locals \cup {id} |-> IF x = id THEN depth ELSE locals[x]]

\* A variant of resolve_local: the depth recorded is one more than the
\* number of scopes between the innermost scope and the one holding the name.
ResolveLocalOneFurther(rs, id, name) ==
    LET i == ScopeOf(rs.scopes, Len(rs.scopes), name)
    IN  IF i = 0 THEN rs
        ELSE [rs EXCEPT !.locals = InterpreterResolve(@, id, Len(rs.scopes) - i + 1)]

resolve_local(rs, id, name) ==
    LET i == ScopeOf(rs.scopes, Len(rs.scopes), name)
    IN  IF i = 0 THEN rs
        ELSE [rs EXCEPT !.locals = InterpreterResolve(@, id, Len(rs.scopes) - i)]

RECURSIVE resolve_stmt(_, _), resolve_expr(_, _), ResolveStmtsFrom(_, _, _),
          ResolveExprsFrom(_, _, _), resolve_function(_, _, _),
          ResolveMethodsFrom(_, _, _), DeclareParamsFrom(_, _, _)

\* for statement in statements: if statement is not None: resolve_stmt
ResolveStmtsFrom(statements, i, rs) ==
    IF i > Len(statements) THEN rs
    ELSE IF statements[i].k = "None" THEN ResolveStmtsFrom(statements, i + 1, rs)
    ELSE Let(resolve_stmt(statements[i], rs),
             LAMBDA r1 : ResolveStmtsFrom(statements, i + 1, r1))

resolve_statements(statements, rs) == ResolveStmtsFrom(statements, 1, rs)

ResolveExprsFrom(exprs, i, rs) ==
    IF i > Len(exprs) THEN rs
    ELSE Let(resolve_expr(exprs[i], rs),
             LAMBDA r1 : ResolveExprsFrom(exprs, i + 1, r1))

DeclareParamsFrom(params, i, rs) ==
    IF i > Len(params) THEN rs
    ELSE Let(define(declare(rs, params[i]), params[i]),
             LAMBDA r1 : DeclareParamsFrom(params, i + 1, r1))

resolve_function(function, function_type, rs) ==
    Let(DeclareParamsFrom(function.params, 1,
            begin_scope([rs EXCEPT !.current_function = function_type])),
        LAMBDA r1 :
    Let(resolve_statements(function.body, r1),
        LAMBDA r2 :
    [end_scope(r2) EXCEPT !.current_function = rs.current_function]))

ResolveMethodsFrom(methods, i, rs) ==
    IF i > Len(methods) THEN rs
    ELSE Let(resolve_function(methods[i],
                IF methods[i].name = "init" THEN "INITIALIZER" ELSE "METHOD", rs),
             LAMBDA r1 : ResolveMethodsFrom(methods, i + 1, r1))

\* A variant of ResolverClassScopes: the scope of super lies inside the
\* scope of this.
ResolverClassScopesSuperInside(stmt, rs) ==
    IF stmt.superclass.k = "None"
    THEN SetInnermost(begin_scope(rs), "this", TRUE)
    ELSE Let(resolve_expr(stmt.superclass, [rs EXCEPT !.current_class = "SUBCLASS"]),
             LAMBDA r1 :
             SetInnermost(begin_scope(SetInnermost(begin_scope(r1), "this", TRUE)),
                          "super", TRUE))

\* visit_class_stmt, lines 105-114: the superclass expression, then the
\* scopes of super and of this.
ResolverClassScopes(stmt, rs) ==
    IF stmt.superclass.k = "None"
    THEN SetInnermost(begin_scope(rs), "this", TRUE)
    ELSE Let(resolve_expr(stmt.superclass, [rs EXCEPT !.current_class = "SUBCLASS"]),
             LAMBDA r1 :
             SetInnermost(begin_scope(SetInnermost(begin_scope(r1), "super", TRUE)),
                          "this", TRUE))

\* A variant of visit_class_stmt: one scope is popped after the methods,
\* with or without a superclass.
ClassStmtPoppingOnce(stmt, rs) ==
    Let(define(declare([rs EXCEPT !.current_class = "CLASS"], stmt.name), stmt.name),
        LAMBDA r1 :
    Let(ResolverClassScopes(stmt, r1),
        LAMBDA r3 :
    Let(ResolveMethodsFrom(stmt.methods, 1, r3),
        LAMBDA r4 : [end_scope(r4) EXCEPT !.current_class = rs.current_class])))

ResolverVisitClassStmt(stmt, rs) ==
    Let(define(declare([rs EXCEPT !.current_class = "CLASS"], stmt.name), stmt.name),
        LAMBDA r1 :
    Let(IF stmt.superclass.k # "None" /\ stmt.name = stmt.superclass.name
        THEN Report(r1, "Error: A class can't inherit from itself.")
        ELSE r1,
        LAMBDA r2 :
    Let(ResolverClassScopes(stmt, r2),
        LAMBDA r3 :
    Let(ResolveMethodsFrom(stmt.methods, 1, r3),
        LAMBDA r4 :
    [(IF stmt.superclass.k # "None" THEN end_scope(end_scope(r4)) ELSE end_scope(r4))
        EXCEPT !.current_class = rs.current_class]))))

ResolverVisitReturnStmt(stmt, rs) ==
    Let(IF rs.current_function = "NONE"
        THEN Report(rs, "Error: Can't return from top-level code.")
        ELSE rs,
        LAMBDA r1 :
    IF stmt.value.k = "None" THEN r1
    ELSE resolve_expr(stmt.value,
            IF r1.current_function = "INITIALIZER"
            THEN Report(r1, "Error: Can't return a value from an initializer.")
            ELSE r1))

\* A variant of visit_var_stmt: the name is defined before the initializer
\* is resolved.
VarDefinedBeforeInitializer(stmt, rs) ==
    Let(define(declare(rs, stmt.name), stmt.name),
        LAMBDA r1 :
    IF stmt.initializer.k = "None" THEN r1
    ELSE resolve_expr(stmt.initializer, r1))

ResolverVisitVarStmt(stmt, rs) ==
    Let(declare(rs, stmt.name),
        LAMBDA r1 :
    IF stmt.initializer.k = "None" THEN define(r1, stmt.name)
    ELSE Let(resolve_expr(stmt.initializer, r1),
             LAMBDA r2 : define(r2, stmt.name)))

ResolverVisitIfStmt(stmt, rs) ==
    Let(resolve_expr(stmt.condition, rs),
        LAMBDA r1 :
    Let(resolve_stmt(stmt.then_branch, r1),
        LAMBDA r2 :
    IF stmt.else_branch.k = "None" THEN r2
    ELSE resolve_stmt(stmt.else_branch, r2)))

resolve_stmt(stmt, rs) ==
    CASE stmt.k = "Block" ->
            Let(resolve_statements(stmt.statements, begin_scope(rs)),
                LAMBDA r1 : end_scope(r1))
      [] stmt.k = "Class" -> ResolverVisitClassStmt(stmt, rs)
      [] stmt.k = "Expression" -> resolve_expr(stmt.expression, rs)
      [] stmt.k = "Function" ->
            Let(define(declare(rs, stmt.name), stmt.name),
                LAMBDA r1 : resolve_function(stmt, "FUNCTION", r1))
      [] stmt.k = "If" -> ResolverVisitIfStmt(stmt, rs)
      [] stmt.k = "Print" -> resolve_expr(stmt.expression, rs)
      [] stmt.k = "Return" -> ResolverVisitReturnStmt(stmt, rs)
      [] stmt.k = "Var" -> ResolverVisitVarStmt(stmt, rs)
      [] stmt.k = "While" ->
            Let(resolve_expr(stmt.condition, rs),
                LAMBDA r1 : resolve_stmt(stmt.body, r1))

ResolverVisitSuperExpr(expr, rs) ==
    resolve_local(
        IF rs.current_class = "NONE"
        THEN Report(rs, "Error: Can't use 'super' outside of a class.")
        ELSE IF rs.current_class # "SUBCLASS"
        THEN Report(rs, "Error: Can't use 'super' in a class with no superclass.")
        ELSE rs,
        expr.id, "super")

ResolverVisitThisExpr(expr, rs) ==
    IF rs.current_class = "NONE"
    THEN Report(rs, "Error: Can't use 'this' outside of a class.")
    ELSE resolve_local(rs, expr.id, "this")

ResolverVisitVariableExpr(expr, rs) ==
    resolve_local(
        IF /\ Len(rs.scopes) > 0
           /\ expr.name \in DOMAIN rs.scopes[Len(rs.scopes)]
           /\ rs.scopes[Len(rs.scopes)][expr.name] = FALSE
        THEN Report(rs, "Error: Can't read local variable '" \o expr.name
                        \o "' in its own initializer.")
        ELSE rs,
        expr.id, expr.name)

\* Two sub-expressions resolved one after the other.
ResolveBoth(first, second, rs) ==
    Let(resolve_expr(first, rs), LAMBDA r1 : resolve_expr(second, r1))

resolve_expr(expr, rs) ==
    CASE expr.k = "Assign" ->
            Let(resolve_expr(expr.value, rs),
                LAMBDA r1 : resolve_local(r1, expr.id, expr.name))
      [] expr.k = "Binary" -> ResolveBoth(expr.left, expr.right, rs)
      [] expr.k = "Call" ->
            Let(resolve_expr(expr.callee, rs),
                LAMBDA r1 : ResolveExprsFrom(expr.arguments, 1, r1))
      [] expr.k = "Get" -> resolve_expr(expr.object, rs)
      [] expr.k = "Grouping" -> resolve_expr(expr.expression, rs)
      [] expr.k = "Literal" -> rs
      [] expr.k = "Logical" -> ResolveBoth(expr.left, expr.right, rs)
      [] expr.k = "Set" -> ResolveBoth(expr.value, expr.object, rs)
      [] expr.k = "Super" -> ResolverVisitSuperExpr(expr, rs)
      [] expr.k = "This" -> ResolverVisitThisExpr(expr, rs)
      [] expr.k = "Unary" -> resolve_expr(expr.right, rs)
      [] expr.k = "Variable" -> ResolverVisitVariableExpr(expr, rs)

(***************************************************************************)
(* Runtime objects and Interpreter (interpreter.py).                       *)
(*                                                                         *)
(* st is the state one evaluation threads through the visitor:             *)
(*   envs, funs, classes, insts  the heaps of Environment, LoxFunction,    *)
(*                               LoxClass and LoxInstance objects          *)
(*   env, locals                 Interpreter.environment, Interpreter.locals*)
(*   out                         what print() has written to sys.stdout    *)
(*   sig, val                    "ok" and the value of the expression, or  *)
(*                               the exception in flight and its payload   *)
(*   args                        the argument list a call is collecting    *)
(*   frame, calls, steps, log    history: the active call, the calls and   *)
(*                               statements so far, the events so far      *)
(*                                                                         *)
(* The events of log, each with the call (frame) it happened in:           *)
(*   stmt                  a statement starts                              *)
(*   print   v             a line is printed                               *)
(*   fun     a b           function object a is created, closure b         *)
(*   call    a b           function a is called, its body runs in env b    *)
(*   return  v             a return statement raises ReturnException(v)    *)
(*   exit    a b v         the call of a in env b returns v                *)
(*   new     a b v         the call of class a returns v, instance b       *)
(*   super   a b v         super finds method a from class b, this is v    *)
(*   raise   v             an exception is raised: v.t its class           *)
(*   get_at, assign_at  a b v    a node with depth-table entry b reads or  *)
(*                         writes name v.s b hops out, in environment a (0 *)
(*                         when the chain ends before), which binds the    *)
(*                         name (v.t = "bound") or does not ("unbound")    *)
(***************************************************************************)
GlobalsEnv == 1

\* A line written to sys.stdout or sys.stderr, and what wrote it.
Line(kind, text) == [kind |-> kind, text |-> text]

RECURSIVE Lines(_, _)
Lines(kind, texts) ==
    IF texts = <<>> THEN <<>>
    ELSE <<Line(kind, Head(texts))>> \o Lines(kind, Tail(texts))

Event(ev, frame, a, b, v) == [ev |-> ev, frame |-> frame, a |-> a, b |-> b, v |-> v]

Logged(st, ev, a, b, v) ==
    [st EXCEPT !.log = Append(@, Event(ev, st.frame, a, b, v))]

\* raise <exc>(token, message); the event keeps the class and the message.
Throw(st, exc, message) ==
    [Logged(st, "raise", 0, 0, [t |-> exc, n |-> 0, s |-> message]) EXCEPT
        !.sig = exc, !.val = Str(message)]

Value(st, v) == [st EXCEPT !.val = v]

\* Environment.get on the globals: environment.py raises its own RuntimeError.
EnvGet(st, e, name) ==
    LET d == EnvLookup(st.envs, e, name)
    IN  IF d # 0 THEN Value(st, st.envs[d].values[name])
        ELSE Throw(st, "environment.RuntimeError", "Undefined variable.")

\* A variant of Environment.assign: the binding is written in the receiver,
\* whether or not the receiver defines the name.
EnvAssignInReceiver(st, e, name, value) ==
    [st EXCEPT !.envs = EnvDefine(@, e, name, value)]

EnvAssign(st, e, name, value) ==
    LET d == EnvLookup(st.envs, e, name)
    IN  IF d # 0 THEN [st EXCEPT !.envs = EnvDefine(@, d, name, value)]
        ELSE Throw(st, "environment.RuntimeError", "Undefined variable.")

\* self.ancestor(distance).values[name]
EnvGetAt(st, e, distance, name) ==
    LET a == EnvAncestor(st.envs, e, distance)
    IN  IF a = 0 THEN Throw(st, "AttributeError", "'NoneType' object has no attribute")
        ELSE IF name \notin DOMAIN st.envs[a].values THEN Throw(st, "KeyError", name)
        ELSE Value(st, st.envs[a].values[name])

\* self.ancestor(distance).values[name.lexeme] = value
EnvAssignAt(st, e, distance, name, value) ==
    LET a == EnvAncestor(st.envs, e, distance)
    IN  IF a = 0 THEN Throw(st, "AttributeError", "'NoneType' object has no attribute")
        ELSE [st EXCEPT !.envs = EnvDefine(@, a, name, value)]

\* A variant of find_method: the superclass is searched before the class.
RECURSIVE InheritedFirst(_, _, _)
InheritedFirst(classes, c, name) ==
    LET inherited == IF classes[c].superclass # 0
                     THEN InheritedFirst(classes, classes[c].superclass, name)
                     ELSE 0
    IN  IF inherited # 0 THEN inherited
        ELSE IF name \in DOMAIN classes[c].methods THEN classes[c].methods[name]
        ELSE 0

\* LoxClass.find_method: the identity of the function object, 0 for None.
RECURSIVE find_method(_, _, _)
find_method(classes, c, name) ==
    IF name \in DOMAIN classes[c].methods THEN classes[c].methods[name]
    ELSE IF classes[c].superclass # 0 THEN find_method(classes, classes[c].superclass, name)
    ELSE 0

\* LoxFunction.bind: a new function object over a new environment defining this.
bind(st, f, instance) ==
    LET e == Len(st.envs) + 1
        g == Len(st.funs) + 1
    IN  [st EXCEPT
            !.envs = EnvDefine(Append(@, NewEnvironment(st.funs[f].closure)),
                               e, "this", instance),
            !.funs = Append(@, [st.funs[f] EXCEPT !.closure = e]),
            !.val = FunVal(g)]

IsCallable(v) == v.t \in {"ClockFunction", "LoxFunction", "LoxClass"}

arity(st, callee) ==
    IF callee.t = "LoxFunction" THEN Len(st.funs[callee.n].declaration.params)
    ELSE IF callee.t = "LoxClass"
    THEN LET initializer == find_method(st.classes, callee.n, "init")
         IN  IF initializer = 0 THEN 0
             ELSE Len(st.funs[initializer].declaration.params)
    ELSE 0

is_truthy(v) ==
    IF v.t = "nil" THEN FALSE
    ELSE IF v.t = "bool" THEN v.n = 1
    ELSE TRUE

\* a == b of Python: bool is a subclass of int and compares with float by
\* value, str by content, every other object by identity.
PyEq(a, b) ==
    IF a.t \in {"bool", "float"} /\ b.t \in {"bool", "float"} THEN a.n = b.n
    ELSE IF a.t # b.t THEN FALSE
    ELSE IF a.t = "str" THEN a.s = b.s
    ELSE a.n = b.n

is_equal(a, b) ==
    IF a.t = "nil" /\ b.t = "nil" THEN TRUE
    ELSE IF a.t = "nil" THEN FALSE
    ELSE PyEq(a, b)

\* str(obj) of Python for every value.
StringifyHost(st, v) ==
    CASE v.t = "nil" -> "None"
      [] v.t = "bool" -> IF v.n = 1 THEN "True" ELSE "False"
      [] v.t = "float" -> ToString(v.n) \o ".0"
      [] v.t = "str" -> v.s
      [] v.t = "ClockFunction" -> "<native fn>"
      [] v.t = "LoxFunction" -> "<fn " \o st.funs[v.n].declaration.name \o ">"
      [] v.t = "LoxClass" -> "<class " \o st.classes[v.n].name \o ">"
      [] v.t = "LoxInstance" -> "<" \o st.classes[st.insts[v.n].klass].name \o " instance>"

\* Numbers of the model are the integer-valued floats, whose str ends in ".0".
stringify(st, v) ==
    CASE v.t = "nil" -> "nil"
      [] v.t = "bool" -> IF v.n = 1 THEN "true" ELSE "false"
      [] v.t = "float" ->
            LET text == ToString(v.n) \o ".0"
            IN  IF SubSeq(text, Len(text) - 1, Len(text)) = ".0"
                THEN SubSeq(text, 1, Len(text) - 2)
                ELSE text
      [] v.t = "str" -> v.s
      [] v.t = "ClockFunction" -> "<native fn>"
      [] v.t = "LoxFunction" -> "<fn " \o st.funs[v.n].declaration.name \o ">"
      [] v.t = "LoxClass" -> "<class " \o st.classes[v.n].name \o ">"
      [] v.t = "LoxInstance" -> "<" \o st.classes[st.insts[v.n].klass].name \o " instance>"

\* visit_binary_expr once both operands are evaluated.
BinaryOperator(st, operator, left, right) ==
    LET numbers == left.t = "float" /\ right.t = "float"
        bad == Throw(st, "RuntimeError", "Operands must be numbers.")
    IN  CASE operator = "-" -> IF numbers THEN Value(st, Num(left.n - right.n)) ELSE bad
          [] operator = "+" ->
                IF numbers THEN Value(st, Num(left.n + right.n))
                ELSE IF left.t = "str" \/ right.t = "str"
                THEN Value(st, Str(stringify(st, left) \o stringify(st, right)))
                ELSE Throw(st, "RuntimeError",
                           "Operands must be two numbers or at least one string.")
          [] operator = "/" ->
                IF ~numbers THEN bad
                ELSE IF right.n = 0 THEN Throw(st, "RuntimeError", "Division by zero.")
                ELSE Value(st, Num(left.n \div right.n))
          [] operator = "*" -> IF numbers THEN Value(st, Num(left.n * right.n)) ELSE bad
          [] operator = ">" -> IF numbers THEN Value(st, Bool(left.n > right.n)) ELSE bad
          [] operator = ">=" -> IF numbers THEN Value(st, Bool(left.n >= right.n)) ELSE bad
          [] operator = "<" -> IF numbers THEN Value(st, Bool(left.n < right.n)) ELSE bad
          [] operator = "<=" -> IF numbers THEN Value(st, Bool(left.n <= right.n)) ELSE bad
          [] operator = "!=" -> Value(st, Bool(~is_equal(left, right)))
          [] operator = "==" -> Value(st, Bool(is_equal(left, right)))

\* History of get_at and assign_at: the environment distance hops out from the
\* current one and whether it binds name, before the access.
Hop(st, ev, distance, name) ==
    LET a == EnvAncestor(st.envs, st.env, distance)
        bound == a # 0 /\ name \in DOMAIN st.envs[a].values
    IN  Logged(st, ev, a, distance,
               [t |-> IF bound THEN "bound" ELSE "unbound", n |-> 0, s |-> name])

\* lookup_variable
\* A variant of lookup_variable: the name is searched from the current
\* environment outward.
LookupThroughChain(st, name, id) == EnvGet(st, st.env, name)

lookup_variable(st, name, id) ==
    IF id \in DOMAIN st.locals
    THEN EnvGetAt(Hop(st, "get_at", st.locals[id], name), st.env, st.locals[id], name)
    ELSE EnvGet(st, GlobalsEnv, name)

\* A variant of LoxInstance.get: a method of the class chain wins over a
\* field of the same name.
InstanceGetMethodFirst(st, i, name) ==
    LET method == find_method(st.classes, st.insts[i].klass, name)
    IN  IF method # 0 THEN bind(st, method, InstVal(i))
        ELSE IF name \in DOMAIN st.insts[i].fields
        THEN Value(st, st.insts[i].fields[name])
        ELSE Throw(st, "RuntimeError", "Undefined property.")

\* LoxInstance.get
InstanceGet(st, i, name) ==
    IF name \in DOMAIN st.insts[i].fields THEN Value(st, st.insts[i].fields[name])
    ELSE LET method == find_method(st.classes, st.insts[i].klass, name)
         IN  IF method # 0 THEN bind(st, method, InstVal(i))
             ELSE Throw(st, "RuntimeError", "Undefined property.")

\* LoxInstance.set
InstanceSet(st, i, name, value) ==
    [st EXCEPT !.insts[i].fields = Put(@, name, value)]

visit_super_expr(st, expr) ==
    IF expr.id \notin DOMAIN st.locals THEN Throw(st, "KeyError", "locals[expr]")
    ELSE
    LET distance == st.locals[expr.id]
    IN  Let(EnvGetAt(Hop(st, "get_at", distance, "super"), st.env, distance, "super"),
            LAMBDA s1 :
        IF s1.sig # "ok" THEN s1
        ELSE
        Let(EnvGetAt(Hop(s1, "get_at", distance - 1, "this"), st.env, distance - 1,
                     "this"),
            LAMBDA s2 :
        IF s2.sig # "ok" THEN s2
        ELSE IF s1.val.t # "LoxClass"
        THEN Throw(s2, "AttributeError", "object has no attribute 'find_method'")
        ELSE LET method == find_method(st.classes, s1.val.n, expr.method)
             IN  IF method = 0 THEN Throw(s2, "RuntimeError", "Undefined property.")
                 ELSE bind(Logged(s2, "super", method, s1.val.n, s2.val),
                           method, s2.val)))

\* A variant of CallEnvironment: the body runs in a child of the caller's
\* current environment.
CallerEnvironment(fn, st) == NewEnvironment(st.env)

\* The environment LoxFunction.call runs the body in (line 55).
CallEnvironment(fn, st) == NewEnvironment(fn.closure)

\* for i, param in enumerate(params): environment.define(param.lexeme, arguments[i])
RECURSIVE DefineParamsFrom(_, _, _, _, _)
DefineParamsFrom(envs, e, params, arguments, i) ==
    IF i > Len(params) THEN envs
    ELSE Let(EnvDefine(envs, e, params[i], arguments[i]),
             LAMBDA envs1 : DefineParamsFrom(envs1, e, params, arguments, i + 1))

\* A variant of CallResult: a ReturnException yields its payload in an
\* initializer too.
CallResultPayload(is_initializer, this, returned, payload) ==
    IF returned THEN payload
    ELSE IF is_initializer THEN this
    ELSE Nil

\* What LoxFunction.call returns (lines 63-72): returned says whether a
\* ReturnException unwound out of the body, payload is its value.
CallResult(is_initializer, this, returned, payload) ==
    IF is_initializer THEN this
    ELSE IF returned THEN payload
    ELSE Nil

RECURSIVE evaluate(_, _), execute(_, _), ExecuteFrom(_, _, _), execute_block(_, _, _),
          EvaluateArgsFrom(_, _, _), LoxFunctionCall(_, _, _), LoxClassCall(_, _, _),
          WhileLoop(_, _), MethodsFrom(_, _, _, _)

\* A variant of execute_block's loop: it ends at a None entry.
ExecuteFromUntilNone(statements, i, st) ==
    IF i > Len(statements) \/ st.sig # "ok" THEN st
    ELSE IF statements[i].k = "None" THEN st
    ELSE Let(execute(statements[i], st),
             LAMBDA s1 : ExecuteFrom(statements, i + 1, s1))

\* for statement in statements: if statement is not None: self.execute(statement)
ExecuteFrom(statements, i, st) ==
    IF i > Len(statements) \/ st.sig # "ok" THEN st
    ELSE IF statements[i].k = "None" THEN ExecuteFrom(statements, i + 1, st)
    ELSE Let(execute(statements[i], st),
             LAMBDA s1 : ExecuteFrom(statements, i + 1, s1))

\* A variant of execute_block without the finally clause: the environment
\* is restored after the last statement only.
ExecuteBlockNoFinally(statements, environment, st) ==
    Let(ExecuteFrom(statements, 1, [st EXCEPT !.env = environment]),
        LAMBDA s1 : IF s1.sig = "ok" THEN [s1 EXCEPT !.env = st.env] ELSE s1)

\* try: ... finally: self.environment = previous
execute_block(statements, environment, st) ==
    Let(ExecuteFrom(statements, 1, [st EXCEPT !.env = environment]),
        LAMBDA s1 : [s1 EXCEPT !.env = st.env])

\* LoxFunction.call once the body has run or unwound into state s2.
FunctionReturn(f, e, st, s2) ==
    LET fn == st.funs[f]
    IN  IF s2.sig \notin {"ok", "ReturnException"} THEN [s2 EXCEPT !.frame = st.frame]
        ELSE
        Let(IF fn.is_initializer
            THEN EnvGetAt([s2 EXCEPT !.sig = "ok"], fn.closure, 0, "this")
            ELSE [s2 EXCEPT !.sig = "ok"],
            LAMBDA s3 :
        IF s3.sig # "ok" THEN [s3 EXCEPT !.frame = st.frame]
        ELSE LET result == CallResult(fn.is_initializer, s3.val,
                                      s2.sig = "ReturnException", s2.val)
             IN  [Logged(s3, "exit", f, e, result) EXCEPT
                     !.val = result, !.frame = st.frame])

LoxFunctionCall(f, arguments, st) ==
    LET fn == st.funs[f]
        e == Len(st.envs) + 1
        fr == st.calls + 1
    IN  Let(Logged([st EXCEPT
                       !.envs = DefineParamsFrom(Append(@, CallEnvironment(fn, st)), e,
                                                 fn.declaration.params, arguments, 1),
                       !.calls = fr, !.frame = fr],
                   "call", f, e, Nil),
            LAMBDA s1 :
        Let(execute_block(fn.declaration.body, e, s1),
            LAMBDA s2 : FunctionReturn(f, e, st, s2)))

LoxClassCall(c, arguments, st) ==
    LET i == Len(st.insts) + 1
        initializer == find_method(st.classes, c, "init")
    IN  Let([st EXCEPT !.insts = Append(@, [klass |-> c, fields |-> EmptyDict])],
            LAMBDA s1 :
        IF initializer = 0 THEN Value(Logged(s1, "new", c, i, InstVal(i)), InstVal(i))
        ELSE
        Let(bind(s1, initializer, InstVal(i)),
            LAMBDA s2 :
        Let(LoxFunctionCall(s2.val.n, arguments, s2),
            LAMBDA s3 :
        IF s3.sig # "ok" THEN s3
        ELSE Value(Logged(s3, "new", c, i, InstVal(i)), InstVal(i)))))

\* arguments.append(self.evaluate(argument)), left to right
EvaluateArgsFrom(arguments, i, st) ==
    IF i > Len(arguments) \/ st.sig # "ok" THEN st
    ELSE Let(evaluate(arguments[i], st),
             LAMBDA s1 :
         IF s1.sig # "ok" THEN s1
         ELSE Let([s1 EXCEPT !.args = Append(st.args, s1.val)],
                  LAMBDA s2 : EvaluateArgsFrom(arguments, i + 1, s2)))

\* callee.call(self, arguments)
CalleeCall(callee, arguments, st) ==
    IF callee.t = "LoxFunction" THEN LoxFunctionCall(callee.n, arguments, st)
    ELSE IF callee.t = "LoxClass" THEN LoxClassCall(callee.n, arguments, st)
    ELSE Value(st, Num(st.now))

\* A variant of FinishCall: a call with the wrong number of arguments yields
\* nil.
FinishCallLenient(callee, arguments, sig, st) ==
    IF sig # "ok" THEN st
    ELSE IF ~IsCallable(callee)
    THEN Throw(st, "RuntimeError", "Can only call functions and classes.")
    ELSE IF Len(arguments) # arity(st, callee) THEN Value(st, Nil)
    ELSE CalleeCall(callee, arguments, st)

\* visit_call_expr from line 411 on.
FinishCall(callee, arguments, sig, st) ==
    IF sig # "ok" THEN st
    ELSE IF ~IsCallable(callee)
    THEN Throw(st, "RuntimeError", "Can only call functions and classes.")
    ELSE IF Len(arguments) # arity(st, callee)
    THEN Throw(st, "RuntimeError",
               "Expected " \o ToString(arity(st, callee)) \o " arguments but got "
                  \o ToString(Len(arguments)) \o ".")
    ELSE CalleeCall(callee, arguments, st)

visit_call_expr(st, expr) ==
    Let(evaluate(expr.callee, st),
        LAMBDA s1 :
    IF s1.sig # "ok" THEN s1
    ELSE
    Let(EvaluateArgsFrom(expr.arguments, 1, [s1 EXCEPT !.args = <<>>]),
        LAMBDA s2 :
    Let([s2 EXCEPT !.args = st.args],
        LAMBDA s3 : FinishCall(s1.val, s2.args, s2.sig, s3))))

visit_assign_expr(st, expr) ==
    Let(evaluate(expr.value, st),
        LAMBDA s1 :
    IF s1.sig # "ok" THEN s1
    ELSE
    Let(IF expr.id \in DOMAIN s1.locals
        THEN EnvAssignAt(Hop(s1, "assign_at", s1.locals[expr.id], expr.name),
                         s1.env, s1.locals[expr.id], expr.name, s1.val)
        ELSE EnvAssign(s1, GlobalsEnv, expr.name, s1.val),
        LAMBDA s2 :
    IF s2.sig # "ok" THEN s2 ELSE Value(s2, s1.val)))

visit_binary_expr(st, expr) ==
    Let(evaluate(expr.left, st),
        LAMBDA s1 :
    IF s1.sig # "ok" THEN s1
    ELSE
    Let(evaluate(expr.right, s1),
        LAMBDA s2 :
    IF s2.sig # "ok" THEN s2
    ELSE BinaryOperator(s2, expr.operator, s1.val, s2.val)))

\* Negation that converts its operand without check_number_operand.
UnaryUnchecked(st, expr) ==
    Let(evaluate(expr.right, st),
        LAMBDA s1 :
    IF s1.sig # "ok" THEN s1
    ELSE IF expr.operator = "-" THEN Value(s1, Num(0 - s1.val.n))
    ELSE Value(s1, Bool(~is_truthy(s1.val))))

visit_unary_expr(st, expr) ==
    Let(evaluate(expr.right, st),
        LAMBDA s1 :
    IF s1.sig # "ok" THEN s1
    ELSE IF expr.operator = "-"
    THEN IF s1.val.t # "float" THEN Throw(s1, "RuntimeError", "Operand must be a number.")
         ELSE Value(s1, Num(0 - s1.val.n))
    ELSE Value(s1, Bool(~is_truthy(s1.val))))

visit_logical_expr(st, expr) ==
    Let(evaluate(expr.left, st),
        LAMBDA s1 :
    IF s1.sig # "ok" THEN s1
    ELSE IF expr.operator = "or" /\ is_truthy(s1.val) THEN s1
    ELSE IF expr.operator # "or" /\ ~is_truthy(s1.val) THEN s1
    ELSE evaluate(expr.right, s1))

visit_get_expr(st, expr) ==
    Let(evaluate(expr.object, st),
        LAMBDA s1 :
    IF s1.sig # "ok" THEN s1
    ELSE IF s1.val.t = "LoxInstance" THEN InstanceGet(s1, s1.val.n, expr.name)
    ELSE Throw(s1, "RuntimeError", "Only instances have properties."))

visit_set_expr(st, expr) ==
    Let(evaluate(expr.object, st),
        LAMBDA s1 :
    IF s1.sig # "ok" THEN s1
    ELSE IF s1.val.t # "LoxInstance"
    THEN Throw(s1, "RuntimeError", "Only instances have fields.")
    ELSE
    Let(evaluate(expr.value, s1),
        LAMBDA s2 :
    IF s2.sig # "ok" THEN s2
    ELSE InstanceSet(s2, s1.val.n, expr.name, s2.val)))

evaluate(expr, st) ==
    CASE expr.k = "Assign" -> visit_assign_expr(st, expr)
      [] expr.k = "Binary" -> visit_binary_expr(st, expr)
      [] expr.k = "Call" -> visit_call_expr(st, expr)
      [] expr.k = "Get" -> visit_get_expr(st, expr)
      [] expr.k = "Grouping" -> evaluate(expr.expression, st)
      [] expr.k = "Literal" -> Value(st, expr.value)
      [] expr.k = "Logical" -> visit_logical_expr(st, expr)
      [] expr.k = "Set" -> visit_set_expr(st, expr)
      [] expr.k = "Super" -> visit_super_expr(st, expr)
      [] expr.k = "This" -> lookup_variable(st, "this", expr.id)
      [] expr.k = "Unary" -> visit_unary_expr(st, expr)
      [] expr.k = "Variable" -> lookup_variable(st, expr.name, expr.id)

\* methods[method.name.lexeme] = LoxFunction(method, self.environment, name == "init")
\* The finished table is handed back in st.args.
MethodsFrom(methods, i, table, st) ==
    IF i > Len(methods) THEN [st EXCEPT !.val = Nil, !.args = table]
    ELSE LET g == Len(st.funs) + 1
             function == [declaration |-> methods[i], closure |-> st.env,
                          is_initializer |-> methods[i].name = "init"]
         IN  Let([st EXCEPT !.funs = Append(@, function)],
                 LAMBDA s1 :
             Let(Put(table, methods[i].name, g),
                 LAMBDA table1 : MethodsFrom(methods, i + 1, table1, s1)))

\* A variant of DefineClass: the environment that defines super stays the
\* current one after the declaration.
DefineClassKeepingSuper(st, stmt, superclass) ==
    LET e == Len(st.envs) + 1
    IN  Let([st EXCEPT !.envs = EnvDefine(@, st.env, stmt.name, Nil)],
            LAMBDA s2 :
        Let(IF stmt.superclass.k # "None"
            THEN [s2 EXCEPT
                    !.envs = EnvDefine(Append(@, NewEnvironment(s2.env)), e,
                                       "super", ClassVal(superclass)),
                    !.env = e]
            ELSE s2,
            LAMBDA s3 :
        Let(MethodsFrom(stmt.methods, 1, EmptyDict, s3),
            LAMBDA s4 :
        LET c == Len(s4.classes) + 1
            klass == [name |-> stmt.name, superclass |-> superclass,
                      methods |-> s4.args]
        IN  Let([s4 EXCEPT !.classes = Append(@, klass), !.args = st.args],
                LAMBDA s5 : EnvAssign(s5, s5.env, stmt.name, ClassVal(c))))))

\* visit_class_stmt from line 315 on; superclass is the class object the
\* superclass expression evaluated to, 0 for None.
DefineClass(st, stmt, superclass) ==
    LET e == Len(st.envs) + 1
    IN  Let([st EXCEPT !.envs = EnvDefine(@, st.env, stmt.name, Nil)],
            LAMBDA s2 :
        Let(IF stmt.superclass.k # "None"
            THEN [s2 EXCEPT
                    !.envs = EnvDefine(Append(@, NewEnvironment(s2.env)), e,
                                       "super", ClassVal(superclass)),
                    !.env = e]
            ELSE s2,
            LAMBDA s3 :
        Let(MethodsFrom(stmt.methods, 1, EmptyDict, s3),
            LAMBDA s4 :
        LET c == Len(s4.classes) + 1
            klass == [name |-> stmt.name, superclass |-> superclass,
                      methods |-> s4.args]
        IN  Let([s4 EXCEPT
                    !.classes = Append(@, klass),
                    !.args = st.args,
                    !.env = IF superclass # 0 THEN s4.envs[s4.env].enclosing
                            ELSE s4.env],
                LAMBDA s5 : EnvAssign(s5, s5.env, stmt.name, ClassVal(c))))))

visit_class_stmt(st, stmt) ==
    IF stmt.superclass.k = "None" THEN DefineClass(st, stmt, 0)
    ELSE Let(evaluate(stmt.superclass, st),
             LAMBDA s1 :
         IF s1.sig # "ok" THEN s1
         ELSE IF s1.val.t # "LoxClass"
         THEN Throw(s1, "RuntimeError", "Superclass must be a class.")
         ELSE DefineClass(s1, stmt, s1.val.n))

visit_function_stmt(st, stmt) ==
    LET g == Len(st.funs) + 1
        function == [declaration |-> stmt, closure |-> st.env, is_initializer |-> FALSE]
    IN  [Logged(st, "fun", g, st.env, Nil) EXCEPT
            !.funs = Append(@, function),
            !.envs = EnvDefine(@, st.env, stmt.name, FunVal(g))]

visit_if_stmt(st, stmt) ==
    Let(evaluate(stmt.condition, st),
        LAMBDA s1 :
    IF s1.sig # "ok" THEN s1
    ELSE IF is_truthy(s1.val) THEN execute(stmt.then_branch, s1)
    ELSE IF stmt.else_branch.k # "None" THEN execute(stmt.else_branch, s1)
    ELSE s1)

\* print(self.stringify(value)): one line on sys.stdout
visit_print_stmt(st, stmt) ==
    Let(evaluate(stmt.expression, st),
        LAMBDA s1 :
    IF s1.sig # "ok" THEN s1
    ELSE LET line == Str(stringify(s1, s1.val))
         IN  [Logged(s1, "print", 0, 0, line) EXCEPT
                 !.out = Append(@, Line("print", line.s))])

\* A variant of visit_return_stmt: the value is evaluated and no
\* ReturnException is raised.
ReturnWithoutUnwinding(st, stmt) ==
    Let(IF stmt.value.k = "None" THEN Value(st, Nil) ELSE evaluate(stmt.value, st),
        LAMBDA s1 :
    IF s1.sig # "ok" THEN s1 ELSE Logged(s1, "return", 0, 0, s1.val))

visit_return_stmt(st, stmt) ==
    Let(IF stmt.value.k = "None" THEN Value(st, Nil) ELSE evaluate(stmt.value, st),
        LAMBDA s1 :
    IF s1.sig # "ok" THEN s1
    ELSE [Logged(s1, "return", 0, 0, s1.val) EXCEPT !.sig = "ReturnException"])

visit_var_stmt(st, stmt) ==
    Let(IF stmt.initializer.k = "None" THEN Value(st, Nil)
        ELSE evaluate(stmt.initializer, st),
        LAMBDA s1 :
    IF s1.sig # "ok" THEN s1
    ELSE [s1 EXCEPT !.envs = EnvDefine(@, s1.env, stmt.name, s1.val)])

\* while self.is_truthy(self.evaluate(stmt.condition)): self.execute(stmt.body)
WhileLoop(stmt, st) ==
    Let(evaluate(stmt.condition, st),
        LAMBDA s1 :
    IF s1.sig # "ok" THEN s1
    ELSE IF ~is_truthy(s1.val) THEN s1
    ELSE
    Let(execute(stmt.body, s1),
        LAMBDA s2 :
    IF s2.sig # "ok" THEN s2 ELSE WhileLoop(stmt, s2)))

\* A variant of visit_block_stmt: the block runs in the current environment.
BlockWithoutEnvironment(st, stmt) == execute_block(stmt.statements, st.env, st)

visit_block_stmt(st, stmt) ==
    LET e == Len(st.envs) + 1
    IN  execute_block(stmt.statements, e,
                      [st EXCEPT !.envs = Append(@, NewEnvironment(st.env))])

execute(stmt, st) ==
    IF st.steps >= MaxSteps THEN [st EXCEPT !.sig = "StepBound"]
    ELSE
    Let(Logged([st EXCEPT !.steps = @ + 1], "stmt", 0, 0, Nil),
        LAMBDA s0 :
    CASE stmt.k = "Block" -> visit_block_stmt(s0, stmt)
      [] stmt.k = "Class" -> visit_class_stmt(s0, stmt)
      [] stmt.k = "Expression" -> evaluate(stmt.expression, s0)
      [] stmt.k = "Function" -> visit_function_stmt(s0, stmt)
      [] stmt.k = "If" -> visit_if_stmt(s0, stmt)
      [] stmt.k = "Print" -> visit_print_stmt(s0, stmt)
      [] stmt.k = "Return" -> visit_return_stmt(s0, stmt)
      [] stmt.k = "Var" -> visit_var_stmt(s0, stmt)
      [] stmt.k = "While" -> WhileLoop(stmt, s0))

(***************************************************************************)
(* The sources.  Each one is the statement list Parser.parse returns for   *)
(* the source text in the comment (None entries are NoStmt), with the      *)
(* lines Scanner and Parser printed while producing it.                    *)
(***************************************************************************)
\* spec.md scenario 1:
\*   print 1 + 2;
ProgArithmetic ==
    [scan |-> <<>>,
     parse |-> <<>>,
     statements |->
        <<PrintStmt(Binary(Literal(Num(1)), "+", Literal(Num(2))))>>]

\* tests/test_full.py test_scoping:
\*   var a = "global a"; var b = "global b"; var c = "global c"; { var a = 
\*   "outer a"; var b = "outer b"; { var a = "inner a"; print a; print b; p
\*   rint c; } print a; print b; } print a; print b;
ProgScoping ==
    [scan |-> <<>>,
     parse |-> <<>>,
     statements |->
        <<Var("a", Literal(Str("global a"))), Var("b",
        Literal(Str("global b"))), Var("c", Literal(Str("global c"))),
        Block(<<Var("a", Literal(Str("outer a"))), Var("b",
        Literal(Str("outer b"))), Block(<<Var("a", Literal(Str("inner a"))),
        PrintStmt(Variable(201, "a")), PrintStmt(Variable(202, "b")),
        PrintStmt(Variable(203, "c"))>>), PrintStmt(Variable(204, "a")),
        PrintStmt(Variable(205, "b"))>>), PrintStmt(Variable(206, "a")),
        PrintStmt(Variable(207, "b"))>>]

\* spec.md scenario 2:
\*   var a = "outer"; { var a = "inner"; print a; } print a;
ProgShadow ==
    [scan |-> <<>>,
     parse |-> <<>>,
     statements |->
        <<Var("a", Literal(Str("outer"))), Block(<<Var("a",
        Literal(Str("inner"))), PrintStmt(Variable(301, "a"))>>),
        PrintStmt(Variable(302, "a"))>>]

\* tests/test_full.py test_functions (closures):
\*   fun makeCounter() { var i = 0; fun count() { i = i + 1; return i; } re
\*   turn count; } var counter = makeCounter(); print counter(); print coun
\*   ter();
ProgCounter ==
    [scan |-> <<>>,
     parse |-> <<>>,
     statements |->
        <<Function("makeCounter", <<>>, <<Var("i", Literal(Num(0))),
        Function("count", <<>>, <<Expression(Assign(401, "i",
        Binary(Variable(402, "i"), "+", Literal(Num(1))))),
        Return(Variable(403, "i"))>>), Return(Variable(404, "count"))>>),
        Var("counter", Call(Variable(405, "makeCounter"), <<>>)),
        PrintStmt(Call(Variable(406, "counter"), <<>>)),
        PrintStmt(Call(Variable(407, "counter"), <<>>))>>]

\* tests/test_full.py test_functions (recursion):
\*   fun factorial(n) { if (n <= 1) return 1; return n * factorial(n - 1); 
\*   } print factorial(2);
ProgFactorial ==
    [scan |-> <<>>,
     parse |-> <<>>,
     statements |->
        <<Function("factorial", <<"n">>, <<If(Binary(Variable(501, "n"), "<=",
        Literal(Num(1))), Return(Literal(Num(1))), NoStmt),
        Return(Binary(Variable(502, "n"), "*", Call(Variable(503,
        "factorial"), <<Binary(Variable(504, "n"), "-",
        Literal(Num(1)))>>)))>>), PrintStmt(Call(Variable(505, "factorial"),
        <<Literal(Num(2))>>))>>]

\* tests/test_full.py test_classes (constructor):
\*   class Cake { init(flavor) { this.flavor = flavor; } taste() { return "
\*   Mmm, " + this.flavor + " cake!"; } } var cake = Cake("chocolate"); pri
\*   nt cake.taste();
ProgCake ==
    [scan |-> <<>>,
     parse |-> <<>>,
     statements |->
        <<Class("Cake", NoExpr, <<Function("init", <<"flavor">>,
        <<Expression(Set(This(601), "flavor", Variable(602, "flavor")))>>),
        Function("taste", <<>>, <<Return(Binary(Binary(Literal(Str("Mmm, ")),
        "+", Get(This(603), "flavor")), "+", Literal(Str(" cake!"))))>>)>>),
        Var("cake", Call(Variable(604, "Cake"),
        <<Literal(Str("chocolate"))>>)), PrintStmt(Call(Get(Variable(605,
        "cake"), "taste"), <<>>))>>]

\* tests/test_full.py test_inheritance:
\*   class Doughnut { cook() { print "Fry until golden brown."; } } class B
\*   ostonCream < Doughnut { cook() { super.cook(); print "Pipe full of cus
\*   tard and coat with chocolate."; } } BostonCream().cook();
ProgDoughnut ==
    [scan |-> <<>>,
     parse |-> <<>>,
     statements |->
        <<Class("Doughnut", NoExpr, <<Function("cook", <<>>,
        <<PrintStmt(Literal(Str("Fry until golden brown.")))>>)>>),
        Class("BostonCream", Variable(701, "Doughnut"), <<Function("cook",
        <<>>, <<Expression(Call(Super(702, "cook"), <<>>)),
        PrintStmt(Literal(Str("Pipe full of custard and coat with chocolate.")))>>)>>),
        Expression(Call(Get(Call(Variable(703, "BostonCream"), <<>>), "cook"),
        <<>>))>>]

\* tests/test_full.py test_control_flow (while):
\*   var i = 0; while (i < 3) { print i; i = i + 1; }
ProgWhileLoop ==
    [scan |-> <<>>,
     parse |-> <<>>,
     statements |->
        <<Var("i", Literal(Num(0))), While(Binary(Variable(801, "i"), "<",
        Literal(Num(3))), Block(<<PrintStmt(Variable(802, "i")),
        Expression(Assign(803, "i", Binary(Variable(804, "i"), "+",
        Literal(Num(1)))))>>))>>]

\* spec.md scenario 7:
\*   print 1/0;
ProgDivZero ==
    [scan |-> <<>>,
     parse |-> <<>>,
     statements |->
        <<PrintStmt(Binary(Literal(Num(1)), "/", Literal(Num(0))))>>]

\* a parse error between two prints:
\*   print 1; print ; print 2;
ProgParseError ==
    [scan |-> <<>>,
     parse |-> <<"Parse error at line 1: Expected expression.">>,
     statements |->
        <<PrintStmt(Literal(Num(1))), NoStmt, PrintStmt(Literal(Num(2)))>>]

\* a parse error, then an assignment:
\*   var a = 1; var = 2; a = 3; print a;
ProgParseErrorVar ==
    [scan |-> <<>>,
     parse |-> <<"Parse error at line 1: Expected variable name.">>,
     statements |->
        <<Var("a", Literal(Num(1))), NoStmt, Expression(Assign(1101, "a",
        Literal(Num(3)))), PrintStmt(Variable(1102, "a"))>>]

\* an unrecognized character:
\*   @ print 1;
ProgScanError ==
    [scan |-> <<"Can't recognize char '@' on line 1">>,
     parse |-> <<>>,
     statements |->
        <<PrintStmt(Literal(Num(1)))>>]

\* an unterminated string:
\*   print 1; "abc
ProgUnterminated ==
    [scan |-> <<"Unterminated string at line 1">>,
     parse |-> <<>>,
     statements |->
        <<PrintStmt(Literal(Num(1)))>>]

\* a resolver error:
\*   print 1; { var a = 1; var a = 2; } print 3;
ProgRedeclare ==
    [scan |-> <<>>,
     parse |-> <<>>,
     statements |->
        <<PrintStmt(Literal(Num(1))), Block(<<Var("a", Literal(Num(1))),
        Var("a", Literal(Num(2)))>>), PrintStmt(Literal(Num(3)))>>]

\* assignment to an undeclared global:
\*   var a = 1; print a; x = 1; print 2;
ProgUndefAssign ==
    [scan |-> <<>>,
     parse |-> <<>>,
     statements |->
        <<Var("a", Literal(Num(1))), PrintStmt(Variable(1501, "a")),
        Expression(Assign(1502, "x", Literal(Num(1)))),
        PrintStmt(Literal(Num(2)))>>]

\* read of an undefined global:
\*   print 1; print y; print 2;
ProgUndefRead ==
    [scan |-> <<>>,
     parse |-> <<>>,
     statements |->
        <<PrintStmt(Literal(Num(1))), PrintStmt(Variable(1601, "y")),
        PrintStmt(Literal(Num(2)))>>]

\* a runtime error in the third statement:
\*   var a = 1; print a; print -"x"; a = 2; print a;
ProgNegateString ==
    [scan |-> <<>>,
     parse |-> <<>>,
     statements |->
        <<Var("a", Literal(Num(1))), PrintStmt(Variable(1701, "a")),
        PrintStmt(Unary("-", Literal(Str("x")))), Expression(Assign(1702, "a",
        Literal(Num(2)))), PrintStmt(Variable(1703, "a"))>>]

\* a runtime error inside a call:
\*   var a = 1; fun f() { a = 2; print nil + 1; a = 3; } f(); print a;
ProgErrorInCall ==
    [scan |-> <<>>,
     parse |-> <<>>,
     statements |->
        <<Var("a", Literal(Num(1))), Function("f", <<>>,
        <<Expression(Assign(1801, "a", Literal(Num(2)))),
        PrintStmt(Binary(Literal(Nil), "+", Literal(Num(1)))),
        Expression(Assign(1802, "a", Literal(Num(3))))>>),
        Expression(Call(Variable(1803, "f"), <<>>)), PrintStmt(Variable(1804,
        "a"))>>]

\* a call of a string:
\*   print "before"; "x"(); print "after";
ProgCallString ==
    [scan |-> <<>>,
     parse |-> <<>>,
     statements |->
        <<PrintStmt(Literal(Str("before"))),
        Expression(Call(Literal(Str("x")), <<>>)),
        PrintStmt(Literal(Str("after")))>>]

\* return inside a block inside a loop:
\*   fun f() { while (true) { { return 7; } print 8; } print 9; } print f()
\*   ; print "end";
ProgDeepReturn ==
    [scan |-> <<>>,
     parse |-> <<>>,
     statements |->
        <<Function("f", <<>>, <<While(Literal(Bool(TRUE)),
        Block(<<Block(<<Return(Literal(Num(7)))>>),
        PrintStmt(Literal(Num(8)))>>)), PrintStmt(Literal(Num(9)))>>),
        PrintStmt(Call(Variable(2001, "f"), <<>>)),
        PrintStmt(Literal(Str("end")))>>]

\* return without a value:
\*   fun f() { return; print 1; } print f();
ProgBareReturn ==
    [scan |-> <<>>,
     parse |-> <<>>,
     statements |->
        <<Function("f", <<>>, <<Return(NoExpr), PrintStmt(Literal(Num(1)))>>),
        PrintStmt(Call(Variable(2101, "f"), <<>>))>>]

\* return of the inner call only:
\*   fun g() { return 1; print "g"; } fun f() { var x = g(); print "after g
\*   "; return x + 1; print "f"; } print f();
ProgNestedCalls ==
    [scan |-> <<>>,
     parse |-> <<>>,
     statements |->
        <<Function("g", <<>>, <<Return(Literal(Num(1))),
        PrintStmt(Literal(Str("g")))>>), Function("f", <<>>, <<Var("x",
        Call(Variable(2201, "g"), <<>>)), PrintStmt(Literal(Str("after g"))),
        Return(Binary(Variable(2202, "x"), "+", Literal(Num(1)))),
        PrintStmt(Literal(Str("f")))>>), PrintStmt(Call(Variable(2203, "f"),
        <<>>))>>]

\* return in both branches of an if:
\*   fun f(n) { if (n > 0) { return "pos"; } else { return "nonpos"; } prin
\*   t "no"; } print f(1); print f(0);
ProgReturnInIf ==
    [scan |-> <<>>,
     parse |-> <<>>,
     statements |->
        <<Function("f", <<"n">>, <<If(Binary(Variable(2301, "n"), ">",
        Literal(Num(0))), Block(<<Return(Literal(Str("pos")))>>),
        Block(<<Return(Literal(Str("nonpos")))>>)),
        PrintStmt(Literal(Str("no")))>>), PrintStmt(Call(Variable(2302, "f"),
        <<Literal(Num(1))>>)), PrintStmt(Call(Variable(2303, "f"),
        <<Literal(Num(0))>>))>>]

\* a body that completes normally:
\*   fun f() { var x = 1; } print f();
ProgNoReturn ==
    [scan |-> <<>>,
     parse |-> <<>>,
     statements |->
        <<Function("f", <<>>, <<Var("x", Literal(Num(1)))>>),
        PrintStmt(Call(Variable(2401, "f"), <<>>))>>]

\* bare return inside init:
\*   class A { init() { this.x = 1; return; this.x = 2; } } var a = A(); pr
\*   int a.x; print a.init() == a;
ProgInitReturn ==
    [scan |-> <<>>,
     parse |-> <<>>,
     statements |->
        <<Class("A", NoExpr, <<Function("init", <<>>,
        <<Expression(Set(This(2501), "x", Literal(Num(1)))), Return(NoExpr),
        Expression(Set(This(2502), "x", Literal(Num(2))))>>)>>), Var("a",
        Call(Variable(2503, "A"), <<>>)), PrintStmt(Get(Variable(2504, "a"),
        "x")), PrintStmt(Binary(Call(Get(Variable(2505, "a"), "init"), <<>>),
        "==", Variable(2506, "a")))>>]

\* return of a value inside init:
\*   class A { init() { return 5; } } print A(); print A().init();
ProgInitValue ==
    [scan |-> <<>>,
     parse |-> <<>>,
     statements |->
        <<Class("A", NoExpr, <<Function("init", <<>>,
        <<Return(Literal(Num(5)))>>)>>), PrintStmt(Call(Variable(2601, "A"),
        <<>>)), PrintStmt(Call(Get(Call(Variable(2602, "A"), <<>>), "init"),
        <<>>))>>]

\* init invoked directly on an instance:
\*   class P { init(n) { this.n = n; } } var p = P(1); var q = p.init(2); p
\*   rint q == p; print p.n;
ProgInitDirect ==
    [scan |-> <<>>,
     parse |-> <<>>,
     statements |->
        <<Class("P", NoExpr, <<Function("init", <<"n">>,
        <<Expression(Set(This(2701), "n", Variable(2702, "n")))>>)>>),
        Var("p", Call(Variable(2703, "P"), <<Literal(Num(1))>>)), Var("q",
        Call(Get(Variable(2704, "p"), "init"), <<Literal(Num(2))>>)),
        PrintStmt(Binary(Variable(2705, "q"), "==", Variable(2706, "p"))),
        PrintStmt(Get(Variable(2707, "p"), "n"))>>]

\* super in B called on an instance of C:
\*   class A { m() { print "A.m"; } } class B < A { m() { print "B.m"; } t(
\*   ) { super.m(); } } class C < B { m() { print "C.m"; } } C().t(); C().m
\*   ();
ProgSuperChain ==
    [scan |-> <<>>,
     parse |-> <<>>,
     statements |->
        <<Class("A", NoExpr, <<Function("m", <<>>,
        <<PrintStmt(Literal(Str("A.m")))>>)>>), Class("B", Variable(2801,
        "A"), <<Function("m", <<>>, <<PrintStmt(Literal(Str("B.m")))>>),
        Function("t", <<>>, <<Expression(Call(Super(2802, "m"), <<>>))>>)>>),
        Class("C", Variable(2803, "B"), <<Function("m", <<>>,
        <<PrintStmt(Literal(Str("C.m")))>>)>>),
        Expression(Call(Get(Call(Variable(2804, "C"), <<>>), "t"), <<>>)),
        Expression(Call(Get(Call(Variable(2805, "C"), <<>>), "m"), <<>>))>>]

\* override and inheritance:
\*   class A { m() { print "A.m"; } n() { print "A.n"; } } class B < A { m(
\*   ) { print "B.m"; } } B().m(); B().n();
ProgOverride ==
    [scan |-> <<>>,
     parse |-> <<>>,
     statements |->
        <<Class("A", NoExpr, <<Function("m", <<>>,
        <<PrintStmt(Literal(Str("A.m")))>>), Function("n", <<>>,
        <<PrintStmt(Literal(Str("A.n")))>>)>>), Class("B", Variable(2901,
        "A"), <<Function("m", <<>>, <<PrintStmt(Literal(Str("B.m")))>>)>>),
        Expression(Call(Get(Call(Variable(2902, "B"), <<>>), "m"), <<>>)),
        Expression(Call(Get(Call(Variable(2903, "B"), <<>>), "n"), <<>>))>>]

\* the method found by super is bound to this:
\*   class A { who() { print this.name; } } class B < A { who() { super.who
\*   (); } } var b = B(); b.name = "bee"; b.who();
ProgSuperThis ==
    [scan |-> <<>>,
     parse |-> <<>>,
     statements |->
        <<Class("A", NoExpr, <<Function("who", <<>>,
        <<PrintStmt(Get(This(3001), "name"))>>)>>), Class("B", Variable(3002,
        "A"), <<Function("who", <<>>, <<Expression(Call(Super(3003, "who"),
        <<>>))>>)>>), Var("b", Call(Variable(3004, "B"), <<>>)),
        Expression(Set(Variable(3005, "b"), "name", Literal(Str("bee")))),
        Expression(Call(Get(Variable(3006, "b"), "who"), <<>>))>>]

\* a call from a scope that shadows the captured variable:
\*   { var a = "outer"; fun show() { print a; } { var a = "inner"; show(); 
\*   } }
ProgLexical ==
    [scan |-> <<>>,
     parse |-> <<>>,
     statements |->
        <<Block(<<Var("a", Literal(Str("outer"))), Function("show", <<>>,
        <<PrintStmt(Variable(3101, "a"))>>), Block(<<Var("a",
        Literal(Str("inner"))), Expression(Call(Variable(3102, "show"),
        <<>>))>>)>>)>>]

\* a call from another function:
\*   var x = "global"; fun show() { print x; } fun caller() { var x = "loca
\*   l"; show(); } caller();
ProgGlobalFun ==
    [scan |-> <<>>,
     parse |-> <<>>,
     statements |->
        <<Var("x", Literal(Str("global"))), Function("show", <<>>,
        <<PrintStmt(Variable(3201, "x"))>>), Function("caller", <<>>,
        <<Var("x", Literal(Str("local"))), Expression(Call(Variable(3202,
        "show"), <<>>))>>), Expression(Call(Variable(3203, "caller"), <<>>))>>]

\* return at top level:
\*   print 1; return 5; print 2;
ProgTopReturn ==
    [scan |-> <<>>,
     parse |-> <<>>,
     statements |->
        <<PrintStmt(Literal(Num(1))), Return(Literal(Num(5))),
        PrintStmt(Literal(Num(2)))>>]

\* a local read in its own initializer:
\*   var a = 1; { var a = a; print a; }
ProgOwnInit ==
    [scan |-> <<>>,
     parse |-> <<>>,
     statements |->
        <<Var("a", Literal(Num(1))), Block(<<Var("a", Variable(3401, "a")),
        PrintStmt(Variable(3402, "a"))>>)>>]

\* tests/test_full.py test_built_ins:
\*   print clock() > 0;
ProgClock ==
    [scan |-> <<>>,
     parse |-> <<>>,
     statements |->
        <<PrintStmt(Binary(Call(Variable(3501, "clock"), <<>>), ">",
        Literal(Num(0))))>>]

\* tests/test_full.py test_control_flow (for):
\*   for (var i = 0; i < 3; i = i + 1) { print i; }
ProgForLoop ==
    [scan |-> <<>>,
     parse |-> <<>>,
     statements |->
        <<Block(<<Var("i", Literal(Num(0))), While(Binary(Variable(3601, "i"),
        "<", Literal(Num(3))), Block(<<Block(<<PrintStmt(Variable(3602,
        "i"))>>), Expression(Assign(3603, "i", Binary(Variable(3604, "i"),
        "+", Literal(Num(1)))))>>))>>)>>]

\* assignment to a global, then a shadowing declaration:
\*   var a = 1; { var b = 2; a = b; var a = 3; print a; } print a;
ProgBlockAssign ==
    [scan |-> <<>>,
     parse |-> <<>>,
     statements |->
        <<Var("a", Literal(Num(1))), Block(<<Var("b", Literal(Num(2))),
        Expression(Assign(3701, "a", Variable(3702, "b"))), Var("a",
        Literal(Num(3))), PrintStmt(Variable(3703, "a"))>>),
        PrintStmt(Variable(3704, "a"))>>]

\* equality across and within variants:
\*   class A {} fun f() {} var a = A(); var b = A(); print nil == nil; prin
\*   t true == true; print 1 == 1; print "a" == "a"; print f == f; print A 
\*   == A; print a == a; print a == b; print 1 == 2; print nil == false; pr
\*   int 1 == "1"; print true == 1; print false == 0; print true != 1; prin
\*   t 1 != 1; print 1 != 2;
ProgEquality ==
    [scan |-> <<>>,
     parse |-> <<>>,
     statements |->
        <<Class("A", NoExpr, <<>>), Function("f", <<>>, <<>>), Var("a",
        Call(Variable(3801, "A"), <<>>)), Var("b", Call(Variable(3802, "A"),
        <<>>)), PrintStmt(Binary(Literal(Nil), "==", Literal(Nil))),
        PrintStmt(Binary(Literal(Bool(TRUE)), "==", Literal(Bool(TRUE)))),
        PrintStmt(Binary(Literal(Num(1)), "==", Literal(Num(1)))),
        PrintStmt(Binary(Literal(Str("a")), "==", Literal(Str("a")))),
        PrintStmt(Binary(Variable(3803, "f"), "==", Variable(3804, "f"))),
        PrintStmt(Binary(Variable(3805, "A"), "==", Variable(3806, "A"))),
        PrintStmt(Binary(Variable(3807, "a"), "==", Variable(3808, "a"))),
        PrintStmt(Binary(Variable(3809, "a"), "==", Variable(3810, "b"))),
        PrintStmt(Binary(Literal(Num(1)), "==", Literal(Num(2)))),
        PrintStmt(Binary(Literal(Nil), "==", Literal(Bool(FALSE)))),
        PrintStmt(Binary(Literal(Num(1)), "==", Literal(Str("1")))),
        PrintStmt(Binary(Literal(Bool(TRUE)), "==", Literal(Num(1)))),
        PrintStmt(Binary(Literal(Bool(FALSE)), "==", Literal(Num(0)))),
        PrintStmt(Binary(Literal(Bool(TRUE)), "!=", Literal(Num(1)))),
        PrintStmt(Binary(Literal(Num(1)), "!=", Literal(Num(1)))),
        PrintStmt(Binary(Literal(Num(1)), "!=", Literal(Num(2))))>>]

\* sums, concatenations, then a boolean plus a number:
\*   class A {} print 1 + 2; print "a" + "b"; print "a" + 1; print 2 + "a";
\*    print nil + "a"; print "a" + true; print "i" + A(); print A + ""; pri
\*   nt "x"; print true + 1; print "y";
ProgPlus ==
    [scan |-> <<>>,
     parse |-> <<>>,
     statements |->
        <<Class("A", NoExpr, <<>>), PrintStmt(Binary(Literal(Num(1)), "+",
        Literal(Num(2)))), PrintStmt(Binary(Literal(Str("a")), "+",
        Literal(Str("b")))), PrintStmt(Binary(Literal(Str("a")), "+",
        Literal(Num(1)))), PrintStmt(Binary(Literal(Num(2)), "+",
        Literal(Str("a")))), PrintStmt(Binary(Literal(Nil), "+",
        Literal(Str("a")))), PrintStmt(Binary(Literal(Str("a")), "+",
        Literal(Bool(TRUE)))), PrintStmt(Binary(Literal(Str("i")), "+",
        Call(Variable(3901, "A"), <<>>))), PrintStmt(Binary(Variable(3902,
        "A"), "+", Literal(Str("")))), PrintStmt(Literal(Str("x"))),
        PrintStmt(Binary(Literal(Bool(TRUE)), "+", Literal(Num(1)))),
        PrintStmt(Literal(Str("y")))>>]

\* arithmetic and comparisons, then a comparison of a boolean:
\*   print 3 - 1; print 2 * 3; print 6 / 2; print 1 < 2; print 2 <= 2; prin
\*   t 1 > 2; print 1 >= 2; print -3; print - -3; print true < 1; print "y"
\*   ;
ProgOperators ==
    [scan |-> <<>>,
     parse |-> <<>>,
     statements |->
        <<PrintStmt(Binary(Literal(Num(3)), "-", Literal(Num(1)))),
        PrintStmt(Binary(Literal(Num(2)), "*", Literal(Num(3)))),
        PrintStmt(Binary(Literal(Num(6)), "/", Literal(Num(2)))),
        PrintStmt(Binary(Literal(Num(1)), "<", Literal(Num(2)))),
        PrintStmt(Binary(Literal(Num(2)), "<=", Literal(Num(2)))),
        PrintStmt(Binary(Literal(Num(1)), ">", Literal(Num(2)))),
        PrintStmt(Binary(Literal(Num(1)), ">=", Literal(Num(2)))),
        PrintStmt(Unary("-", Literal(Num(3)))), PrintStmt(Unary("-",
        Unary("-", Literal(Num(3))))), PrintStmt(Binary(Literal(Bool(TRUE)),
        "<", Literal(Num(1)))), PrintStmt(Literal(Str("y")))>>]

\* a call of the nil that c() yields, with two arguments that print:
\*   fun a() { print "a"; return 1; } fun b() { print "b"; return 2; } fun 
\*   c() { print "c"; } c()(a(), b()); print "after";
ProgCallNil ==
    [scan |-> <<>>,
     parse |-> <<>>,
     statements |->
        <<Function("a", <<>>, <<PrintStmt(Literal(Str("a"))),
        Return(Literal(Num(1)))>>), Function("b", <<>>,
        <<PrintStmt(Literal(Str("b"))), Return(Literal(Num(2)))>>),
        Function("c", <<>>, <<PrintStmt(Literal(Str("c")))>>),
        Expression(Call(Call(Variable(4101, "c"), <<>>), <<Call(Variable(4102,
        "a"), <<>>), Call(Variable(4103, "b"), <<>>)>>)),
        PrintStmt(Literal(Str("after")))>>]

\* a function of two parameters called with one argument:
\*   fun a() { print "a"; return 1; } fun f(x, y) { print "body"; } f(a());
\*    print "after";
ProgCallArity ==
    [scan |-> <<>>,
     parse |-> <<>>,
     statements |->
        <<Function("a", <<>>, <<PrintStmt(Literal(Str("a"))),
        Return(Literal(Num(1)))>>), Function("f", <<"x", "y">>,
        <<PrintStmt(Literal(Str("body")))>>), Expression(Call(Variable(4201,
        "f"), <<Call(Variable(4202, "a"), <<>>)>>)),
        PrintStmt(Literal(Str("after")))>>]

\* a class that inherits init(x) called with two arguments:
\*   class A { init(x) { print "init"; } } class B < A {} fun a() { print "
\*   a"; return 1; } B(a(), a()); print "after";
ProgCallInherited ==
    [scan |-> <<>>,
     parse |-> <<>>,
     statements |->
        <<Class("A", NoExpr, <<Function("init", <<"x">>,
        <<PrintStmt(Literal(Str("init")))>>)>>), Class("B", Variable(4301,
        "A"), <<>>), Function("a", <<>>, <<PrintStmt(Literal(Str("a"))),
        Return(Literal(Num(1)))>>), Expression(Call(Variable(4302, "B"),
        <<Call(Variable(4303, "a"), <<>>), Call(Variable(4304, "a"),
        <<>>)>>)), PrintStmt(Literal(Str("after")))>>]

\* a class without init called with one argument:
\*   class C {} print C(); C(1); print "after";
ProgCallNoInit ==
    [scan |-> <<>>,
     parse |-> <<>>,
     statements |->
        <<Class("C", NoExpr, <<>>), PrintStmt(Call(Variable(4401, "C"),
        <<>>)), Expression(Call(Variable(4402, "C"), <<Literal(Num(1))>>)),
        PrintStmt(Literal(Str("after")))>>]

\* a global read and assigned from functions declared before a local of the same name:
\*   var a = "global"; { fun show() { print a; } fun set() { a = "set"; } v
\*   ar a = "block"; set(); show(); print a; } print a;
ProgLateShadow ==
    [scan |-> <<>>,
     parse |-> <<>>,
     statements |->
        <<Var("a", Literal(Str("global"))), Block(<<Function("show", <<>>,
        <<PrintStmt(Variable(4501, "a"))>>), Function("set", <<>>,
        <<Expression(Assign(4502, "a", Literal(Str("set"))))>>), Var("a",
        Literal(Str("block"))), Expression(Call(Variable(4503, "set"), <<>>)),
        Expression(Call(Variable(4504, "show"), <<>>)),
        PrintStmt(Variable(4505, "a"))>>), PrintStmt(Variable(4506, "a"))>>]

\* this and super directly in the methods of a subclass:
\*   class A { init() { this.n = 1; } } class B < A { get() { return this.n
\*   ; } both() { print this.get(); super.init(); } } print B().get(); B().
\*   both();
ProgSubclassThis ==
    [scan |-> <<>>,
     parse |-> <<>>,
     statements |->
        <<Class("A", NoExpr, <<Function("init", <<>>,
        <<Expression(Set(This(4601), "n", Literal(Num(1))))>>)>>), Class("B",
        Variable(4602, "A"), <<Function("get", <<>>, <<Return(Get(This(4603),
        "n"))>>), Function("both", <<>>, <<PrintStmt(Call(Get(This(4604),
        "get"), <<>>)), Expression(Call(Super(4605, "init"), <<>>))>>)>>),
        PrintStmt(Call(Get(Call(Variable(4606, "B"), <<>>), "get"), <<>>)),
        Expression(Call(Get(Call(Variable(4607, "B"), <<>>), "both"), <<>>))>>]

\* a superclass that is a number:
\*   var NotAClass = 1; print "start"; class B < NotAClass {} print "after"
\*   ;
ProgSuperNotClass ==
    [scan |-> <<>>,
     parse |-> <<>>,
     statements |->
        <<Var("NotAClass", Literal(Num(1))), PrintStmt(Literal(Str("start"))),
        Class("B", Variable(4701, "NotAClass"), <<>>),
        PrintStmt(Literal(Str("after")))>>]

\* a superclass that is not defined:
\*   print "start"; class B < Missing {} print "after";
ProgSuperUndefined ==
    [scan |-> <<>>,
     parse |-> <<>>,
     statements |->
        <<PrintStmt(Literal(Str("start"))), Class("B", Variable(4801,
        "Missing"), <<>>), PrintStmt(Literal(Str("after")))>>]

\* a field named as an inherited method, then a property that is not defined:
\*   class A { m() { return "method"; } } class B < A {} var b = B(); var c
\*    = B(); print b.m(); b.m = "field"; print b.m; b.m = "again"; print b.
\*   m; print c.m(); b.x = 1; print b.x; print b.absent; print "after";
ProgFields ==
    [scan |-> <<>>,
     parse |-> <<>>,
     statements |->
        <<Class("A", NoExpr, <<Function("m", <<>>,
        <<Return(Literal(Str("method")))>>)>>), Class("B", Variable(4901,
        "A"), <<>>), Var("b", Call(Variable(4902, "B"), <<>>)), Var("c",
        Call(Variable(4903, "B"), <<>>)), PrintStmt(Call(Get(Variable(4904,
        "b"), "m"), <<>>)), Expression(Set(Variable(4905, "b"), "m",
        Literal(Str("field")))), PrintStmt(Get(Variable(4906, "b"), "m")),
        Expression(Set(Variable(4907, "b"), "m", Literal(Str("again")))),
        PrintStmt(Get(Variable(4908, "b"), "m")),
        PrintStmt(Call(Get(Variable(4909, "c"), "m"), <<>>)),
        Expression(Set(Variable(4910, "b"), "x", Literal(Num(1)))),
        PrintStmt(Get(Variable(4911, "b"), "x")), PrintStmt(Get(Variable(4912,
        "b"), "absent")), PrintStmt(Literal(Str("after")))>>]

\* a global read in the initializer of its redeclaration:
\*   var a = 1; var a = a + 1; print a;
ProgGlobalOwnInit ==
    [scan |-> <<>>,
     parse |-> <<>>,
     statements |->
        <<Var("a", Literal(Num(1))), Var("a", Binary(Variable(5001, "a"), "+",
        Literal(Num(1)))), PrintStmt(Variable(5002, "a"))>>]

\* every static error of the resolver:
\*   class A < A { init() { return 1; } m() { { var a = 1; var a = a; } } }
\*    fun f() { this; super.m; } return;
ProgStaticErrors ==
    [scan |-> <<>>,
     parse |-> <<>>,
     statements |->
        <<Class("A", Variable(5101, "A"), <<Function("init", <<>>,
        <<Return(Literal(Num(1)))>>), Function("m", <<>>, <<Block(<<Var("a",
        Literal(Num(1))), Var("a", Variable(5102, "a"))>>)>>)>>),
        Function("f", <<>>, <<Expression(This(5103)), Expression(Super(5104,
        "m"))>>), Return(NoExpr)>>]

\* a function that reads and assigns a local two scopes out, shadowed after its declaration:
\*   { var a = 1; { fun f() { a = a + 1; print a; } var a = 5; f(); print a
\*   ; } print a; }
ProgDepths ==
    [scan |-> <<>>,
     parse |-> <<>>,
     statements |->
        <<Block(<<Var("a", Literal(Num(1))), Block(<<Function("f", <<>>,
        <<Expression(Assign(5201, "a", Binary(Variable(5202, "a"), "+",
        Literal(Num(1))))), PrintStmt(Variable(5203, "a"))>>), Var("a",
        Literal(Num(5))), Expression(Call(Variable(5204, "f"), <<>>)),
        PrintStmt(Variable(5205, "a"))>>), PrintStmt(Variable(5206, "a"))>>)>>]

\* classes declared in a block: this inside a function inside a method, super, a captured local:
\*   { var x = "x"; class A { m() { print x; } } class B < A { m() { fun g(
\*   ) { print this.n; } this.n = x; g(); super.m(); } } B().m(); }
ProgLocalClass ==
    [scan |-> <<>>,
     parse |-> <<>>,
     statements |->
        <<Block(<<Var("x", Literal(Str("x"))), Class("A", NoExpr,
        <<Function("m", <<>>, <<PrintStmt(Variable(5301, "x"))>>)>>),
        Class("B", Variable(5302, "A"), <<Function("m", <<>>, <<Function("g",
        <<>>, <<PrintStmt(Get(This(5303), "n"))>>), Expression(Set(This(5304),
        "n", Variable(5305, "x"))), Expression(Call(Variable(5306, "g"),
        <<>>)), Expression(Call(Super(5307, "m"), <<>>))>>)>>),
        Expression(Call(Get(Call(Variable(5308, "B"), <<>>), "m"), <<>>))>>)>>]

\* a line for the prompt: a global and a subclass:
\*   var a = 1; class A {} class B < A { m() { { print -"x"; } } }
ProgLineDeclare ==
    [scan |-> <<>>,
     parse |-> <<>>,
     statements |->
        <<Var("a", Literal(Num(1))), Class("A", NoExpr, <<>>), Class("B",
        Variable(5401, "A"), <<Function("m", <<>>,
        <<Block(<<PrintStmt(Unary("-", Literal(Str("x"))))>>)>>)>>)>>]

\* a line for the prompt: a runtime error in a block in a method called from a block:
\*   { var b = 2; B().m(); } print "not reached";
ProgLineRuntimeError ==
    [scan |-> <<>>,
     parse |-> <<>>,
     statements |->
        <<Block(<<Var("b", Literal(Num(2))),
        Expression(Call(Get(Call(Variable(5501, "B"), <<>>), "m"), <<>>))>>),
        PrintStmt(Literal(Str("not reached")))>>]

\* a line for the prompt: the global is read and assigned:
\*   print a; a = a + 1;
ProgLineUse ==
    [scan |-> <<>>,
     parse |-> <<>>,
     statements |->
        <<PrintStmt(Variable(5601, "a")), Expression(Assign(5602, "a",
        Binary(Variable(5603, "a"), "+", Literal(Num(1)))))>>]

\* a line for the prompt: an undefined variable read inside two blocks:
\*   { var c = 3; { print missing; } }
ProgLineUndefined ==
    [scan |-> <<>>,
     parse |-> <<>>,
     statements |->
        <<Block(<<Var("c", Literal(Num(3))), Block(<<PrintStmt(Variable(5701,
        "missing"))>>)>>)>>]

\* a line for the prompt: a return from inside a block:
\*   fun f() { { return a; } } print f();
ProgLineReturn ==
    [scan |-> <<>>,
     parse |-> <<>>,
     statements |->
        <<Function("f", <<>>, <<Block(<<Return(Variable(5801, "a"))>>)>>),
        PrintStmt(Call(Variable(5802, "f"), <<>>))>>]

Programs ==
    <<ProgArithmetic, ProgScoping, ProgShadow, ProgCounter, ProgFactorial,
    ProgCake, ProgDoughnut, ProgWhileLoop, ProgDivZero, ProgParseError,
    ProgParseErrorVar, ProgScanError, ProgUnterminated, ProgRedeclare,
    ProgUndefAssign, ProgUndefRead, ProgNegateString, ProgErrorInCall,
    ProgCallString, ProgDeepReturn, ProgBareReturn, ProgNestedCalls,
    ProgReturnInIf, ProgNoReturn, ProgInitReturn, ProgInitValue,
    ProgInitDirect, ProgSuperChain, ProgOverride, ProgSuperThis, ProgLexical,
    ProgGlobalFun, ProgTopReturn, ProgOwnInit, ProgClock, ProgForLoop,
    ProgBlockAssign, ProgEquality, ProgPlus, ProgOperators, ProgCallNil,
    ProgCallArity, ProgCallInherited, ProgCallNoInit, ProgLateShadow,
    ProgSubclassThis, ProgSuperNotClass, ProgSuperUndefined, ProgFields,
    ProgGlobalOwnInit, ProgStaticErrors, ProgDepths, ProgLocalClass,
    ProgLineDeclare, ProgLineRuntimeError, ProgLineUse, ProgLineUndefined,
    ProgLineReturn>>

\* The index in Programs of a source.
RECURSIVE IndexFrom(_, _)
IndexFrom(prog, i) == IF Programs[i] = prog THEN i ELSE IndexFrom(prog, i + 1)

IndexOf(prog) == IndexFrom(prog, 1)

(***************************************************************************)
(* Scanner (scanner.py).  A source is a sequence of characters, a lexeme   *)
(* a subsequence of it; positions count from 0 as in the code.             *)
(***************************************************************************)
NewScanner(source) ==
    [source |-> source, tokens |-> <<>>, start |-> 0, current |-> 0, line |-> 1,
     out |-> <<>>, pc |-> "scan_tokens"]

Token(type, lexeme, literal, line) ==
    [type |-> type, lexeme |-> lexeme, literal |-> literal, line |-> line]

keywords ==
    <<"a", "n", "d">> :> "AND"
    @@ <<"c", "l", "a", "s", "s">> :> "CLASS"
    @@ <<"e", "l", "s", "e">> :> "ELSE"
    @@ <<"f", "a", "l", "s", "e">> :> "FALSE"
    @@ <<"f", "o", "r">> :> "FOR"
    @@ <<"f", "u", "n">> :> "FUN"
    @@ <<"i", "f">> :> "IF"
    @@ <<"n", "i", "l">> :> "NIL"
    @@ <<"o", "r">> :> "OR"
    @@ <<"p", "r", "i", "n", "t">> :> "PRINT"
    @@ <<"r", "e", "t", "u", "r", "n">> :> "RETURN"
    @@ <<"s", "u", "p", "e", "r">> :> "SUPER"
    @@ <<"t", "h", "i", "s">> :> "THIS"
    @@ <<"t", "r", "u", "e">> :> "TRUE"
    @@ <<"v", "a", "r">> :> "VAR"
    @@ <<"w", "h", "i", "l", "e">> :> "WHILE"

is_at_end(sc) == sc.current >= Len(sc.source)

\* "NUL" stands for the character "\0" that peek returns at the end.
peek(sc) == IF is_at_end(sc) THEN "NUL" ELSE sc.source[sc.current + 1]

peek_at_next(sc) ==
    IF sc.current + 1 >= Len(sc.source) THEN "NUL" ELSE sc.source[sc.current + 2]

\* The scanner after the call; the character returned is source[current - 1].
consume_and_advance(sc) ==
    IF is_at_end(sc) THEN sc ELSE [sc EXCEPT !.current = @ + 1]

\* The scanner after the call; it returned True iff current has moved.
consume_if_match(sc, expected) ==
    IF is_at_end(sc) THEN sc
    ELSE IF sc.source[sc.current + 1] # expected THEN sc
    ELSE [sc EXCEPT !.current = @ + 1]

is_digit(c) == c \in {"0", "1", "2", "3", "4", "5", "6", "7", "8", "9"}

is_alpha(c) ==
    c \in
    {"a", "b", "c", "d", "e", "f", "g", "h", "i", "j", "k", "l", "m", "n",
     "o", "p", "q", "r", "s", "t", "u", "v", "w", "x", "y", "z", "A", "B",
     "C", "D", "E", "F", "G", "H", "I", "J", "K", "L", "M", "N", "O", "P",
     "Q", "R", "S", "T", "U", "V", "W", "X", "Y", "Z", "_"}

is_alphanumeric(c) == is_alpha(c) \/ is_digit(c)

add_token(sc, token_type, literal) ==
    [sc EXCEPT !.tokens =
        Append(@, Token(token_type, SubSeq(sc.source, sc.start + 1, sc.current),
                        literal, sc.line))]

\* The while loops that consume characters: of the comment in scan_token, of
\* string_literal (which counts the newlines it passes), of number_literal
\* and of identifier.
RECURSIVE AdvanceWhile(_, _)
AdvanceWhile(sc, loop) ==
    LET c == peek(sc)
        continue == CASE loop = "comment" -> c # "\n" /\ ~is_at_end(sc)
                      [] loop = "string_literal" -> c # "\"" /\ ~is_at_end(sc)
                      [] loop = "string on one line" -> c # "\"" /\ ~is_at_end(sc)
                      [] loop = "number_literal" -> is_digit(c)
                      [] loop = "identifier" -> is_alphanumeric(c)
    IN  IF ~continue THEN sc
        ELSE AdvanceWhile(
                 consume_and_advance(
                     [sc EXCEPT !.line = IF loop = "string_literal" /\ c = "\n"
                                         THEN @ + 1 ELSE @]),
                 loop)

\* A string literal whose loop does not count the newlines it passes.
StringLiteralOnOneLine(sc) ==
    LET s1 == AdvanceWhile(sc, "string on one line")
    IN  IF is_at_end(s1)
        THEN [s1 EXCEPT !.out =
                 Append(@, "Unterminated string at line " \o ToString(s1.line))]
        ELSE LET s2 == consume_and_advance(s1)
             IN  add_token(s2, "STRING",
                           Str(SubSeq(s2.source, s2.start + 2, s2.current - 1)))

string_literal(sc) ==
    LET s1 == AdvanceWhile(sc, "string_literal")
    IN  IF is_at_end(s1)
        THEN [s1 EXCEPT !.out =
                 Append(@, "Unterminated string at line " \o ToString(s1.line))]
        ELSE LET s2 == consume_and_advance(s1)
             IN  add_token(s2, "STRING",
                           Str(SubSeq(s2.source, s2.start + 2, s2.current - 1)))

\* float(text) of a numeral: the whole part as a number, the digits of the
\* fraction kept as they are written.
number_literal(sc) ==
    LET s1 == AdvanceWhile(sc, "number_literal")
        s2 == IF peek(s1) = "." /\ is_digit(peek_at_next(s1))
              THEN AdvanceWhile(consume_and_advance(s1), "number_literal")
              ELSE s1
        whole == SubSeq(s1.source, s1.start + 1, s1.current)
        value[i \in 0..Len(whole)] ==
            IF i = 0 THEN 0
            ELSE 10 * value[i - 1] + (CHOOSE d \in 0..9 : ToString(d) = whole[i])
    IN  add_token(s2, "NUMBER",
                  [t |-> "float", n |-> value[Len(whole)],
                   s |-> SubSeq(s2.source, s1.current + 2, s2.current)])

identifier(sc) ==
    LET s1 == AdvanceWhile(sc, "identifier")
        text == SubSeq(s1.source, s1.start + 1, s1.current)
    IN  add_token(s1, IF text \in DOMAIN keywords THEN keywords[text]
                      ELSE "IDENTIFIER", Nil)

scan_token(sc) ==
    LET c == sc.source[sc.current + 1]
        s1 == consume_and_advance(sc)
        two(longer, shorter) ==
            LET s2 == consume_if_match(s1, "=")
            IN  add_token(s2, IF s2.current # s1.current THEN longer ELSE shorter, Nil)
    IN  CASE c = "(" -> add_token(s1, "LEFT_PAREN", Nil)
          [] c = ")" -> add_token(s1, "RIGHT_PAREN", Nil)
          [] c = "{" -> add_token(s1, "LEFT_BRACE", Nil)
          [] c = "}" -> add_token(s1, "RIGHT_BRACE", Nil)
          [] c = "-" -> add_token(s1, "MINUS", Nil)
          [] c = "+" -> add_token(s1, "PLUS", Nil)
          [] c = "*" -> add_token(s1, "STAR", Nil)
          [] c = "," -> add_token(s1, "COMMA", Nil)
          [] c = "." -> add_token(s1, "DOT", Nil)
          [] c = ";" -> add_token(s1, "SEMICOLON", Nil)
          [] c = "!" -> two("BANG_EQUAL", "BANG")
          [] c = "=" -> two("EQUAL_EQUAL", "EQUAL")
          [] c = "<" -> two("LESS_EQUAL", "LESS")
          [] c = ">" -> two("GREATER_EQUAL", "GREATER")
          [] c = "/" ->
                LET s2 == consume_if_match(s1, "/")
                IN  IF s2.current # s1.current
                    THEN AdvanceWhile(s2, "comment")
                    ELSE add_token(s1, "SLASH", Nil)
          [] c \in {" ", "\r", "\t"} -> s1
          [] c = "\n" -> [s1 EXCEPT !.line = @ + 1]
          [] c = "\"" -> string_literal(s1)
          [] OTHER ->
                IF is_digit(c) THEN number_literal(s1)
                ELSE IF is_alpha(c) THEN identifier(s1)
                ELSE [s1 EXCEPT !.out =
                         Append(@, "Can't recognize char '" \o c \o "' on line "
                                   \o ToString(s1.line))]

(***************************************************************************)
(* Parser.for_statement (parser.py), from the clauses already parsed.      *)
(***************************************************************************)
\* No parser is at work.
NoParser ==
    [initializer |-> NoStmt, condition |-> NoExpr, increment |-> NoExpr,
     body |-> NoStmt, pc |-> "none"]

\* A variant of for_statement: the increment runs before the body.
ForIncrementingFirst(initializer, condition, increment, body) ==
    LET body1 == IF increment # NoExpr
                 THEN Block(<<Expression(increment), body>>)
                 ELSE body
        body2 == While(IF condition = NoExpr THEN Literal(Bool(TRUE)) ELSE condition,
                       body1)
    IN  IF initializer # NoStmt THEN Block(<<initializer, body2>>) ELSE body2

\* Lines 129-139: the statement built from the clauses, None being NoStmt
\* and NoExpr.
for_statement(initializer, condition, increment, body) ==
    LET body1 == IF increment # NoExpr
                 THEN Block(<<body, Expression(increment)>>)
                 ELSE body
        body2 == While(IF condition = NoExpr THEN Literal(Bool(TRUE)) ELSE condition,
                       body1)
    IN  IF initializer # NoStmt THEN Block(<<initializer, body2>>) ELSE body2

(***************************************************************************)
(* Parser (parser.py).  A parser state ps holds the token list, the index  *)
(* current (from 0, as in the code), the lines printed, the exception      *)
(* being raised (sig) and the value the method returns (val).  nodes       *)
(* counts the expression objects created, which gives each Variable,       *)
(* Assign, This and Super node its identity; steps and log record the      *)
(* calls of declaration and synchronize.                                   *)
(***************************************************************************)
MaxDeclarations == 24

NewParser(tokens) ==
    [tokens |-> tokens, current |-> 0, statements |-> <<>>, out |-> <<>>,
     sig |-> "ok", val |-> NoStmt, nodes |-> 0, steps |-> 0, log |-> <<>>,
     pc |-> "parse"]

\* The rest of a method, run when no exception is propagating.
Then(x, F(_)) == CHOOSE r \in {IF y.sig = "ok" THEN F(y) ELSE y : y \in {x}} : TRUE

\* return value
Returning(ps, value) == [ps EXCEPT !.val = value]

\* The record of a call that began at token index from and returned v.
Called(ps, ev, from, v) ==
    [ps EXCEPT !.log = Append(@, [ev |-> ev, from |-> from, to |-> ps.current,
                                  v |-> v])]

ParserPeek(ps) == ps.tokens[ps.current + 1]

\* tokens[current - 1]: with current = 0 Python's index -1, the last token.
previous(ps) ==
    ps.tokens[IF ps.current = 0 THEN Len(ps.tokens) ELSE ps.current]

ParserIsAtEnd(ps) == ParserPeek(ps).type = "EOF"

check(ps, token_type) ==
    IF ParserIsAtEnd(ps) THEN FALSE ELSE ParserPeek(ps).type = token_type

advance(ps) ==
    IF ~ParserIsAtEnd(ps) THEN [ps EXCEPT !.current = @ + 1] ELSE ps

\* What match returns.
Matched(ps, types) == \E token_type \in types : check(ps, token_type)

\* The parser after match(*types).
match(ps, types) == IF Matched(ps, types) THEN advance(ps) ELSE ps

\* error prints the message and returns the exception.
error(ps, token, message) ==
    [ps EXCEPT !.out = Append(@, "Parse error at line " \o ToString(token.line)
                                 \o ": " \o message)]

\* raise self.error(...)
Raise(ps) == [ps EXCEPT !.sig = "ParseError"]

\* The token consume returns is previous() of the result.
consume(ps, token_type, message) ==
    IF check(ps, token_type) THEN advance(ps)
    ELSE Raise(error(ps, ParserPeek(ps), message))

StatementKeywords ==
    {"CLASS", "FUN", "VAR", "FOR", "IF", "WHILE", "PRINT", "RETURN"}

RECURSIVE SynchronizeLoop(_)
\* Lines 393-409 of synchronize.
SynchronizeLoop(ps) ==
    IF ParserIsAtEnd(ps) THEN ps
    ELSE IF previous(ps).type = "SEMICOLON" THEN ps
    ELSE IF ParserPeek(ps).type \in StatementKeywords THEN ps
    ELSE SynchronizeLoop(advance(ps))

\* A variant of synchronize: the token at the error is not skipped.
SynchronizeWithoutAdvance(ps) ==
    Called(SynchronizeLoop(ps), "synchronize", ps.current, "None")

synchronize(ps) ==
    Called(SynchronizeLoop(advance(ps)), "synchronize", ps.current, "None")

RECURSIVE declaration(_), class_declaration(_), MethodsLoop(_, _), function(_, _),
          ParametersLoop(_, _), var_declaration(_), statement(_),
          ParserForStatement(_), if_statement(_), print_statement(_),
          return_statement(_), while_statement(_), block(_), BlockLoop(_, _),
          expression_statement(_), expression(_), assignment(_), or_expr(_),
          and_expr(_), equality(_), comparison(_), term(_), factor(_),
          Operand(_, _), LeftAssociative(_, _), unary(_), call(_), CallLoop(_),
          finish_call(_, _), ArgumentsLoop(_, _), primary(_)

primary(ps) ==
    LET m == advance(ps)
    IN  IF check(ps, "FALSE") THEN Returning(m, Literal(Bool(FALSE)))
        ELSE IF check(ps, "TRUE") THEN Returning(m, Literal(Bool(TRUE)))
        ELSE IF check(ps, "NIL") THEN Returning(m, Literal(Nil))
        ELSE IF Matched(ps, {"NUMBER", "STRING"})
        THEN Returning(m, Literal(previous(m).literal))
        ELSE IF check(ps, "SUPER")
        THEN Then(consume(m, "DOT", "Expected '.' after 'super'."), LAMBDA d :
             Then(consume(d, "IDENTIFIER", "Expected superclass method name."),
                  LAMBDA c :
             Returning([c EXCEPT !.nodes = @ + 1],
                       Super(c.nodes + 1, previous(c).lexeme))))
        ELSE IF check(ps, "THIS")
        THEN Returning([m EXCEPT !.nodes = @ + 1], This(m.nodes + 1))
        ELSE IF check(ps, "IDENTIFIER")
        THEN Returning([m EXCEPT !.nodes = @ + 1],
                       Variable(m.nodes + 1, previous(m).lexeme))
        ELSE IF check(ps, "LEFT_PAREN")
        THEN Then(expression(m), LAMBDA e :
             Then(consume(e, "RIGHT_PAREN", "Expected ')' after expression."),
                  LAMBDA c :
             Returning(c, Grouping(e.val))))
        ELSE Raise(error(ps, ParserPeek(ps), "Expected expression."))

\* The arguments after the first one; ps.val is unused.
ArgumentsLoop(ps, arguments) ==
    IF Matched(ps, {"COMMA"})
    THEN LET m == match(ps, {"COMMA"})
             e == IF Len(arguments) >= 255
                  THEN error(m, ParserPeek(m), "Can't have more than 255 arguments.")
                  ELSE m
         IN  Then(expression(e), LAMBDA r :
             ArgumentsLoop(r, Append(arguments, r.val)))
    ELSE Returning(ps, arguments)

finish_call(ps, callee) ==
    Then(IF ~check(ps, "RIGHT_PAREN")
         THEN Then(expression(ps), LAMBDA r : ArgumentsLoop(r, <<r.val>>))
         ELSE Returning(ps, <<>>),
         LAMBDA a :
    Then(consume(a, "RIGHT_PAREN", "Expected ')' after arguments."), LAMBDA c :
    Returning(c, Call(callee, a.val))))

\* The loop of call; ps.val is expr.
CallLoop(ps) ==
    IF Matched(ps, {"LEFT_PAREN"})
    THEN Then(finish_call(match(ps, {"LEFT_PAREN"}), ps.val), LAMBDA r :
         CallLoop(r))
    ELSE IF Matched(ps, {"DOT"})
    THEN Then(consume(match(ps, {"DOT"}), "IDENTIFIER",
                      "Expected property name after '.'."),
              LAMBDA c :
         CallLoop(Returning(c, Get(ps.val, previous(c).lexeme))))
    ELSE ps

call(ps) == Then(primary(ps), LAMBDA r : CallLoop(r))

unary(ps) ==
    IF Matched(ps, {"BANG", "MINUS"})
    THEN LET m == match(ps, {"BANG", "MINUS"})
         IN  Then(unary(m), LAMBDA r :
             Returning(r, Unary(previous(m).lexeme, r.val)))
    ELSE call(ps)

\* The operators each level of binary expression matches.
Operators(level) ==
    CASE level = "or_expr" -> {"OR"}
      [] level = "and_expr" -> {"AND"}
      [] level = "equality" -> {"BANG_EQUAL", "EQUAL_EQUAL"}
      [] level = "comparison" ->
            {"GREATER", "GREATER_EQUAL", "LESS", "LESS_EQUAL"}
      [] level = "term" -> {"MINUS", "PLUS"}
      [] level = "factor" -> {"SLASH", "STAR"}

\* The method each level calls for its operands.
Operand(level, ps) ==
    CASE level = "or_expr" -> and_expr(ps)
      [] level = "and_expr" -> equality(ps)
      [] level = "equality" -> comparison(ps)
      [] level = "comparison" -> term(ps)
      [] level = "term" -> factor(ps)
      [] level = "factor" -> unary(ps)

\* The while loop of a level; ps.val is expr.
LeftAssociative(level, ps) ==
    IF Matched(ps, Operators(level))
    THEN LET m == match(ps, Operators(level))
         IN  Then(Operand(level, m), LAMBDA r :
             LeftAssociative(level,
                 Returning(r, IF level \in {"or_expr", "and_expr"}
                              THEN Logical(ps.val, previous(m).lexeme, r.val)
                              ELSE Binary(ps.val, previous(m).lexeme, r.val))))
    ELSE ps

factor(ps) ==
    Then(Operand("factor", ps), LAMBDA r : LeftAssociative("factor", r))

term(ps) ==
    Then(Operand("term", ps), LAMBDA r : LeftAssociative("term", r))

comparison(ps) ==
    Then(Operand("comparison", ps), LAMBDA r : LeftAssociative("comparison", r))

equality(ps) ==
    Then(Operand("equality", ps), LAMBDA r : LeftAssociative("equality", r))

and_expr(ps) ==
    Then(Operand("and_expr", ps), LAMBDA r : LeftAssociative("and_expr", r))

or_expr(ps) ==
    Then(Operand("or_expr", ps), LAMBDA r : LeftAssociative("or_expr", r))

assignment(ps) ==
    Then(or_expr(ps), LAMBDA l :
    IF Matched(l, {"EQUAL"})
    THEN LET m == match(l, {"EQUAL"})
             equals == previous(m)
         IN  Then(assignment(m), LAMBDA r :
             IF l.val.k = "Variable"
             THEN Returning([r EXCEPT !.nodes = @ + 1],
                            Assign(r.nodes + 1, l.val.name, r.val))
             ELSE IF l.val.k = "Get"
             THEN Returning(r, Set(l.val.object, l.val.name, r.val))
             ELSE Returning(error(r, equals, "Invalid assignment target."),
                            l.val))
    ELSE l)

expression(ps) == assignment(ps)

expression_statement(ps) ==
    Then(expression(ps), LAMBDA e :
    Then(consume(e, "SEMICOLON", "Expected ';' after expression."), LAMBDA c :
    Returning(c, Expression(e.val))))

\* A variant of block: the loop stops at `}' only.
BlockLoopPastEnd(ps, stmts) ==
    IF ~check(ps, "RIGHT_BRACE")
    THEN Then(declaration(ps), LAMBDA r : BlockLoop(r, Append(stmts, r.val)))
    ELSE Returning(ps, stmts)

\* The loop of block; ps.val is unused.
BlockLoop(ps, stmts) ==
    IF ~check(ps, "RIGHT_BRACE") /\ ~ParserIsAtEnd(ps)
    THEN Then(declaration(ps), LAMBDA r : BlockLoop(r, Append(stmts, r.val)))
    ELSE Returning(ps, stmts)

block(ps) ==
    Then(BlockLoop(ps, <<>>), LAMBDA b :
    Then(consume(b, "RIGHT_BRACE", "Expected '}' after block."), LAMBDA c :
    Returning(c, b.val)))

while_statement(ps) ==
    Then(consume(ps, "LEFT_PAREN", "Expected '(' after 'while'."), LAMBDA l :
    Then(expression(l), LAMBDA condition :
    Then(consume(condition, "RIGHT_PAREN", "Expected ')' after condition."),
         LAMBDA r :
    Then(statement(r), LAMBDA body :
    Returning(body, While(condition.val, body.val))))))

return_statement(ps) ==
    Then(IF ~check(ps, "SEMICOLON") THEN expression(ps)
         ELSE Returning(ps, NoExpr),
         LAMBDA value :
    Then(consume(value, "SEMICOLON", "Expected ';' after return value."),
         LAMBDA c :
    Returning(c, Return(value.val))))

print_statement(ps) ==
    Then(expression(ps), LAMBDA value :
    Then(consume(value, "SEMICOLON", "Expected ';' after value."), LAMBDA c :
    Returning(c, PrintStmt(value.val))))

if_statement(ps) ==
    Then(consume(ps, "LEFT_PAREN", "Expected '(' after 'if'."), LAMBDA l :
    Then(expression(l), LAMBDA condition :
    Then(consume(condition, "RIGHT_PAREN", "Expected ')' after if condition."),
         LAMBDA r :
    Then(statement(r), LAMBDA then_branch :
    Then(IF Matched(then_branch, {"ELSE"})
         THEN statement(match(then_branch, {"ELSE"}))
         ELSE Returning(then_branch, NoStmt),
         LAMBDA else_branch :
    Returning(else_branch,
              If(condition.val, then_branch.val, else_branch.val)))))))

\* Parser.for_statement: the clauses, then the statement built from them.
ParserForStatement(ps) ==
    Then(consume(ps, "LEFT_PAREN", "Expected '(' after 'for'."), LAMBDA l :
    Then(IF Matched(l, {"SEMICOLON"})
         THEN Returning(match(l, {"SEMICOLON"}), NoStmt)
         ELSE IF Matched(l, {"VAR"}) THEN var_declaration(match(l, {"VAR"}))
         ELSE expression_statement(l),
         LAMBDA initializer :
    Then(IF ~check(initializer, "SEMICOLON") THEN expression(initializer)
         ELSE Returning(initializer, NoExpr),
         LAMBDA condition :
    Then(consume(condition, "SEMICOLON", "Expected ';' after loop condition."),
         LAMBDA s :
    Then(IF ~check(s, "RIGHT_PAREN") THEN expression(s)
         ELSE Returning(s, NoExpr),
         LAMBDA increment :
    Then(consume(increment, "RIGHT_PAREN", "Expected ')' after for clauses."),
         LAMBDA r :
    Then(statement(r), LAMBDA body :
    Returning(body, for_statement(initializer.val, condition.val,
                                  increment.val, body.val)))))))))

statement(ps) ==
    IF Matched(ps, {"FOR"}) THEN ParserForStatement(match(ps, {"FOR"}))
    ELSE IF Matched(ps, {"IF"}) THEN if_statement(match(ps, {"IF"}))
    ELSE IF Matched(ps, {"PRINT"}) THEN print_statement(match(ps, {"PRINT"}))
    ELSE IF Matched(ps, {"RETURN"}) THEN return_statement(match(ps, {"RETURN"}))
    ELSE IF Matched(ps, {"WHILE"}) THEN while_statement(match(ps, {"WHILE"}))
    ELSE IF Matched(ps, {"LEFT_BRACE"})
    THEN Then(block(match(ps, {"LEFT_BRACE"})), LAMBDA b :
         Returning(b, Block(b.val)))
    ELSE expression_statement(ps)

var_declaration(ps) ==
    Then(consume(ps, "IDENTIFIER", "Expected variable name."), LAMBDA name :
    Then(IF Matched(name, {"EQUAL"}) THEN expression(match(name, {"EQUAL"}))
         ELSE Returning(name, NoExpr),
         LAMBDA initializer :
    Then(consume(initializer, "SEMICOLON",
                 "Expected ';' after variable declaration."),
         LAMBDA c :
    Returning(c, Var(previous(name).lexeme, initializer.val)))))

\* The parameters after the first one; ps.val is unused.
ParametersLoop(ps, parameters) ==
    IF Matched(ps, {"COMMA"})
    THEN LET m == match(ps, {"COMMA"})
             e == IF Len(parameters) >= 255
                  THEN error(m, ParserPeek(m), "Can't have more than 255 parameters.")
                  ELSE m
         IN  Then(consume(e, "IDENTIFIER", "Expected parameter name."), LAMBDA c :
             ParametersLoop(c, Append(parameters, previous(c).lexeme)))
    ELSE Returning(ps, parameters)

function(ps, kind) ==
    Then(consume(ps, "IDENTIFIER", "Expected " \o kind \o " name."), LAMBDA name :
    Then(consume(name, "LEFT_PAREN", "Expected '(' after " \o kind \o " name."),
         LAMBDA l :
    Then(IF ~check(l, "RIGHT_PAREN")
         THEN Then(consume(l, "IDENTIFIER", "Expected parameter name."),
                   LAMBDA c : ParametersLoop(c, <<previous(c).lexeme>>))
         ELSE Returning(l, <<>>),
         LAMBDA parameters :
    Then(consume(parameters, "RIGHT_PAREN", "Expected ')' after parameters."),
         LAMBDA r :
    Then(consume(r, "LEFT_BRACE", "Expected '{' before " \o kind \o " body."),
         LAMBDA b :
    Then(block(b), LAMBDA body :
    Returning(body, Function(previous(name).lexeme, parameters.val,
                             body.val))))))))

\* The loop of class_declaration; ps.val is unused.
MethodsLoop(ps, methods) ==
    IF ~check(ps, "RIGHT_BRACE") /\ ~ParserIsAtEnd(ps)
    THEN Then(function(ps, "method"), LAMBDA r :
         MethodsLoop(r, Append(methods, r.val)))
    ELSE Returning(ps, methods)

class_declaration(ps) ==
    Then(consume(ps, "IDENTIFIER", "Expected class name."), LAMBDA name :
    Then(IF Matched(name, {"LESS"})
         THEN Then(consume(match(name, {"LESS"}), "IDENTIFIER",
                           "Expected superclass name."),
                   LAMBDA c :
              Returning([c EXCEPT !.nodes = @ + 1],
                        Variable(c.nodes + 1, previous(c).lexeme)))
         ELSE Returning(name, NoExpr),
         LAMBDA superclass :
    Then(consume(superclass, "LEFT_BRACE", "Expected '{' before class body."),
         LAMBDA l :
    Then(MethodsLoop(l, <<>>), LAMBDA methods :
    Then(consume(methods, "RIGHT_BRACE", "Expected '}' after class body."),
         LAMBDA c :
    Returning(c, Class(previous(name).lexeme, superclass.val, methods.val)))))))

\* A call beyond MaxDeclarations ends the parse with StepBound, which
\* stands for a parse that has not come to an end.
declaration(ps) ==
    IF ps.steps >= MaxDeclarations THEN [ps EXCEPT !.sig = "StepBound"]
    ELSE Let([ps EXCEPT !.steps = @ + 1], LAMBDA s :
         Let(IF Matched(s, {"CLASS"}) THEN class_declaration(match(s, {"CLASS"}))
             ELSE IF Matched(s, {"FUN"})
             THEN function(match(s, {"FUN"}), "function")
             ELSE IF Matched(s, {"VAR"}) THEN var_declaration(match(s, {"VAR"}))
             ELSE statement(s),
             LAMBDA r :
         IF r.sig = "ParseError"
         THEN Called(Returning(synchronize([r EXCEPT !.sig = "ok"]), NoStmt),
                     "declaration", ps.current, "None")
         ELSE IF r.sig = "ok" THEN Called(r, "declaration", ps.current, r.val.k)
         ELSE r))

(***************************************************************************)
(* Lox (pylox.py): run_file and run.                                       *)
(***************************************************************************)
VARIABLES
    pc,                 \* where run_file / run / interpret stands
    src,                \* the source read from the file: an index of Programs
    statements,         \* run's local: what parser.parse() returned
    idx,                \* interpret's loop: the next top-level statement
    had_error,          \* Lox.had_error
    had_runtime_error,  \* Lox.had_runtime_error
    exit_status,        \* the status the process ended with, -1 while it runs
    exception,          \* the exception propagating out of run, "none" if none
    envs, funs, classes, insts,   \* the heaps of runtime objects
    environment,        \* Interpreter.environment
    locals,             \* Interpreter.locals
    stdout, stderr,     \* the lines written to sys.stdout and sys.stderr
    now,                \* what time.time() returns
    log, calls, steps,  \* history of the execution
    scanner,            \* a Scanner object and where scan_tokens stands
    parser,             \* the clauses of a for statement and where the parser stands
    prompts             \* the lines run_prompt has read

vars == <<pc, src, statements, idx, had_error, had_runtime_error, exit_status,
          exception, envs, funs, classes, insts, environment, locals,
          stdout, stderr, now, log, calls, steps, scanner, parser, prompts>>

\* Lox.__init__ and Interpreter.__init__; run_file is about to open the file.
Init ==
    /\ pc = "run_file"
    /\ src \in 1..Len(Programs)
    /\ statements = <<>>
    /\ idx = 0
    /\ had_error = FALSE
    /\ had_runtime_error = FALSE
    /\ exit_status = -1
    /\ exception = "none"
    /\ envs = <<[enclosing |-> 0, values |-> Put(EmptyDict, "clock", NativeFn)]>>
    /\ funs = <<>>
    /\ classes = <<>>
    /\ insts = <<>>
    /\ environment = GlobalsEnv
    /\ locals = [x \in {} |-> 0]
    /\ stdout = <<>>
    /\ stderr = <<>>
    /\ now \in 1..MaxClock
    /\ log = <<>>
    /\ calls = 0
    /\ steps = 0
    /\ scanner = NewScanner(<<>>)
    /\ parser = NoParser
    /\ prompts = 0

\* run_file, lines 30-32 and 39-41: the file is read, or it is not found.
ReadFile ==
    /\ pc = "run_file"
    /\ \E found \in BOOLEAN :
          IF found
          THEN pc' = "run" /\ UNCHANGED <<stderr, exit_status>>
          ELSE /\ pc' = "exited"
               /\ stderr' = Append(stderr, Line("io error", "Couldn't find the file"))
               /\ exit_status' = 1
    /\ UNCHANGED <<scanner, parser, prompts, src, statements, idx, had_error, had_runtime_error, exception,
                   envs, funs, classes, insts, environment, locals, stdout, now,
                   log, calls, steps>>

\* run, lines 60-61: Scanner.scan_tokens prints its errors with print().
ScanTokens ==
    /\ pc = "run"
    /\ pc' = "scanned"
    /\ stdout' = stdout \o Lines("scan error", Programs[src].scan)
    /\ UNCHANGED <<scanner, parser, prompts, src, statements, idx, had_error, had_runtime_error, exit_status,
                   exception, envs, funs, classes, insts, environment, locals,
                   stderr, now, log, calls, steps>>

\* run, lines 63-64: Parser.error prints with print().
Parse ==
    /\ pc = "scanned"
    /\ pc' = "parsed"
    /\ statements' = Programs[src].statements
    /\ stdout' = stdout \o Lines("parse error", Programs[src].parse)
    /\ UNCHANGED <<scanner, parser, prompts, src, idx, had_error, had_runtime_error, exit_status, exception,
                   envs, funs, classes, insts, environment, locals, stderr, now,
                   log, calls, steps>>

\* run, lines 66-70: the Resolver prints its errors with print() and writes
\* the depths into Interpreter.locals.
Resolve ==
    /\ pc = "parsed"
    /\ IF had_error
       THEN pc' = "returned" /\ UNCHANGED <<locals, stdout>>
       ELSE \E rs \in {resolve_statements(statements, NewResolver(locals))} :
                /\ pc' = "resolved"
                /\ locals' = rs.locals
                /\ stdout' = stdout \o Lines("resolver error", rs.diags)
    /\ UNCHANGED <<scanner, parser, prompts, src, statements, idx, had_error, had_runtime_error, exit_status,
                   exception, envs, funs, classes, insts, environment, stderr, now,
                   log, calls, steps>>

\* run, lines 72-75, and the entry of Interpreter.interpret.
Interpret ==
    /\ pc = "resolved"
    /\ IF had_error
       THEN pc' = "returned" /\ UNCHANGED idx
       ELSE pc' = "interpret" /\ idx' = 1
    /\ UNCHANGED <<scanner, parser, prompts, src, statements, had_error, had_runtime_error, exit_status,
                   exception, envs, funs, classes, insts, environment, locals,
                   stdout, stderr, now, log, calls, steps>>

\* The state the visitor starts a top-level statement with.
InterpreterState ==
    [envs |-> envs, funs |-> funs, classes |-> classes, insts |-> insts,
     env |-> environment, locals |-> locals, out |-> stdout, now |-> now,
     sig |-> "ok", val |-> Nil, args |-> <<>>,
     frame |-> 0, calls |-> calls, steps |-> steps, log |-> log]

\* A variant of Outcome: interpret going on with the next statement whatever
\* the last one raised.
OutcomeResuming(sig) == "next"

\* interpret, lines 167-172: what the try statement does with a statement that
\* ended with sig: the loop goes on, the except clause catches the
\* RuntimeError of interpreter.py, or the exception leaves interpret.
Outcome(sig) ==
    IF sig = "ok" THEN "next"
    ELSE IF sig = "RuntimeError" THEN "caught"
    ELSE "propagate"

\* print(f"Runtime error at line {error.token.line}: {error}"); the model
\* keeps no token lines, the text is the message.
ReportRuntimeError(out, message) ==
    Append(out, Line("runtime error", "Runtime error: " \o message))

\* interpret, lines 167-172: one turn of the loop over the statements.
InterpretStatement ==
    /\ pc = "interpret"
    /\ idx <= Len(statements)
    /\ \E st \in {IF statements[idx].k = "None" THEN InterpreterState
                  ELSE execute(statements[idx], InterpreterState)} :
           /\ st.sig # "StepBound"
           /\ envs' = st.envs
           /\ funs' = st.funs
           /\ classes' = st.classes
           /\ insts' = st.insts
           /\ environment' = st.env
           /\ log' = st.log
           /\ calls' = st.calls
           /\ steps' = st.steps
           /\ IF Outcome(st.sig) = "next"
              THEN /\ idx' = idx + 1
                   /\ stdout' = st.out
                   /\ UNCHANGED <<pc, exception>>
              ELSE IF Outcome(st.sig) = "caught"
              THEN /\ stdout' = ReportRuntimeError(st.out, st.val.s)
                   /\ pc' = "returned"
                   /\ UNCHANGED <<idx, exception>>
              ELSE /\ stdout' = st.out
                   /\ exception' = st.sig
                   /\ pc' = "raised"
                   /\ UNCHANGED idx
    /\ UNCHANGED <<scanner, parser, prompts, src, statements, had_error, had_runtime_error, exit_status,
                   locals, stderr, now>>

\* interpret: the loop is over, interpret and run return.
InterpretEnd ==
    /\ pc = "interpret"
    /\ idx > Len(statements)
    /\ pc' = "returned"
    /\ UNCHANGED <<scanner, parser, prompts, src, statements, idx, had_error, had_runtime_error, exit_status,
                   exception, envs, funs, classes, insts, environment, locals,
                   stdout, stderr, now, log, calls, steps>>

\* The status run_file ends with once run has returned (lines 35-38): 0 is
\* the normal return.
RunFileStatus(hadError, hadRuntimeError) ==
    IF hadError THEN 65
    ELSE IF hadRuntimeError THEN 70
    ELSE 0

\* run_file, lines 35-38.
RunFileExit ==
    /\ pc = "returned"
    /\ exit_status' = RunFileStatus(had_error, had_runtime_error)
    /\ pc' = IF RunFileStatus(had_error, had_runtime_error) = 0 THEN "done" ELSE "exited"
    /\ UNCHANGED <<scanner, parser, prompts, src, statements, idx, had_error, had_runtime_error, exception,
                   envs, funs, classes, insts, environment, locals, stdout, stderr,
                   now, log, calls, steps>>

\* An exception that no handler of interpret, run or run_file catches ends
\* the process: Python prints the traceback on sys.stderr and exits with 1.
Uncaught ==
    /\ pc = "raised"
    /\ stderr' = Append(stderr, Line("traceback", exception))
    /\ exit_status' = 1
    /\ pc' = "exited"
    /\ UNCHANGED <<scanner, parser, prompts, src, statements, idx, had_error, had_runtime_error, exception,
                   envs, funs, classes, insts, environment, locals, stdout, now,
                   log, calls, steps>>

Next ==
    \/ ReadFile
    \/ ScanTokens
    \/ Parse
    \/ Resolve
    \/ Interpret
    \/ InterpretStatement
    \/ InterpretEnd
    \/ RunFileExit
    \/ Uncaught

Spec == Init /\ [][Next]_vars

(***************************************************************************)
(* Scanner.scan_tokens on its own, over every short source.                *)
(***************************************************************************)
MaxSource == 3

Alphabet == {"o", "r", "1", "\"", "\n", "/", "=", "@"}

\* The Lox object as constructed; no file is run.
LoxConstructed ==
    /\ pc = "run_file" /\ src = 1 /\ statements = <<>> /\ idx = 0
    /\ had_error = FALSE /\ had_runtime_error = FALSE
    /\ exit_status = -1 /\ exception = "none"
    /\ envs = <<[enclosing |-> 0, values |-> Put(EmptyDict, "clock", NativeFn)]>>
    /\ funs = <<>> /\ classes = <<>> /\ insts = <<>>
    /\ environment = GlobalsEnv
    /\ locals = [x \in {} |-> 0]
    /\ stdout = <<>> /\ stderr = <<>>
    /\ now = 1 /\ log = <<>> /\ calls = 0 /\ steps = 0
    /\ prompts = 0

lox == <<pc, src, statements, idx, had_error, had_runtime_error, exit_status,
         exception, envs, funs, classes, insts, environment, locals,
         stdout, stderr, now, log, calls, steps, prompts>>

\* Scanner(source)
ScanInit ==
    /\ LoxConstructed
    /\ parser = NoParser
    /\ scanner \in {NewScanner(source) :
                       source \in UNION {[1..n -> Alphabet] : n \in 0..MaxSource}}

\* One round of the loop of scan_tokens.
ScanOneToken ==
    /\ scanner.pc = "scan_tokens"
    /\ ~is_at_end(scanner)
    /\ scanner' = scan_token([scanner EXCEPT !.start = scanner.current])
    /\ UNCHANGED <<lox, parser>>

\* The loop is left: the EOF token is appended and the tokens are returned.
ScanReturn ==
    /\ scanner.pc = "scan_tokens"
    /\ is_at_end(scanner)
    /\ scanner' = [scanner EXCEPT
                      !.tokens = Append(@, Token("EOF", <<>>, Nil, scanner.line)),
                      !.pc = "returned"]
    /\ UNCHANGED <<lox, parser>>

ScanNext == ScanOneToken \/ ScanReturn

\* scan_tokens runs to its end once called.
ScanSpec == ScanInit /\ [][ScanNext]_vars /\ WF_vars(ScanNext)

(***************************************************************************)
(* A program with one for statement: Parser.for_statement builds the       *)
(* statement from its clauses, then run resolves and interprets it.        *)
(***************************************************************************)
\* var i = 0; var g = 0; before the for statement.
ForPrologue == <<Var("i", Literal(Num(0))), Var("g", Literal(Num(0)))>>

\* print i; print g; after the for statement.
ForEpilogue == <<PrintStmt(Variable(9001, "i")), PrintStmt(Variable(9002, "g"))>>

\* nothing; var i = 1; i = 1;
ForInitializers ==
    {NoStmt, Var("i", Literal(Num(1))), Expression(Assign(9011, "i", Literal(Num(1))))}

\* nothing; i < 2; i < 1
ForConditions ==
    {NoExpr, Binary(Variable(9021, "i"), "<", Literal(Num(2))),
     Binary(Variable(9022, "i"), "<", Literal(Num(1)))}

\* nothing; i = i + 1
ForIncrements ==
    {NoExpr, Assign(9031, "i", Binary(Variable(9032, "i"), "+", Literal(Num(1))))}

\* print i;   { print i; g = g + i; }   print 1 / (1 - i);
\* { print i; i = i + 1; }
ForBodies ==
    {PrintStmt(Variable(9041, "i")),
     Block(<<PrintStmt(Variable(9042, "i")),
             Expression(Assign(9043, "g", Binary(Variable(9044, "g"), "+",
                                                 Variable(9045, "i"))))>>),
     PrintStmt(Binary(Literal(Num(1)), "/",
                      Grouping(Binary(Literal(Num(1)), "-", Variable(9046, "i"))))),
     Block(<<PrintStmt(Variable(9047, "i")),
             Expression(Assign(9048, "i", Binary(Variable(9049, "i"), "+",
                                                 Literal(Num(1)))))>>)}

\* The loop of the clauses ends: i grows at every turn, by the increment or
\* in the body, and the condition or the division by 1 - i stops the loop.
LoopEnds(p) ==
    /\ \/ p.increment # NoExpr
       \/ /\ p.body.k = "Block"
          /\ \E n \in 1..Len(p.body.statements) :
                /\ p.body.statements[n].k = "Expression"
                /\ p.body.statements[n].expression.k = "Assign"
                /\ p.body.statements[n].expression.name = "i"
    /\ \/ p.condition # NoExpr
       \/ p.body.k = "Print" /\ p.body.expression.k = "Binary"

\* The parser has the clauses of a for statement whose loop ends.
ForInit ==
    /\ LoxConstructed
    /\ scanner = NewScanner(<<>>)
    /\ parser \in {p \in [initializer : ForInitializers, condition : ForConditions,
                           increment : ForIncrements, body : ForBodies,
                           pc : {"for_statement"}] : LoopEnds(p)}

\* parse returns the statements of the program, the for statement as
\* for_statement built it.
ForStatement ==
    /\ pc = "run_file"
    /\ parser.pc = "for_statement"
    /\ statements' = ForPrologue
                     \o <<for_statement(parser.initializer, parser.condition,
                                        parser.increment, parser.body)>>
                     \o ForEpilogue
    /\ parser' = [parser EXCEPT !.pc = "returned"]
    /\ pc' = "parsed"
    /\ UNCHANGED <<scanner, prompts, src, idx, had_error, had_runtime_error, exit_status,
                   exception, envs, funs, classes, insts, environment, locals,
                   stdout, stderr, now, log, calls, steps>>

ForNext ==
    \/ ForStatement
    \/ Resolve
    \/ Interpret
    \/ InterpretStatement
    \/ InterpretEnd

ForSpec == ForInit /\ [][ForNext]_vars

(***************************************************************************)
(* Lox.run_prompt: the lines typed at the prompt are run one after the     *)
(* other by the same Lox object.                                           *)
(***************************************************************************)
MaxLines == 3

\* The lines that can be typed, each a source of Programs.
PromptLines ==
    {IndexOf(ProgLineDeclare), IndexOf(ProgLineRuntimeError), IndexOf(ProgLineUse),
     IndexOf(ProgLineUndefined), IndexOf(ProgLineReturn)}

\* main has called run_prompt on the Lox object it constructed.
ReplInit ==
    /\ pc = "run_prompt"
    /\ src = 1 /\ statements = <<>> /\ idx = 0
    /\ had_error = FALSE /\ had_runtime_error = FALSE
    /\ exit_status = -1 /\ exception = "none"
    /\ envs = <<[enclosing |-> 0, values |-> Put(EmptyDict, "clock", NativeFn)]>>
    /\ funs = <<>> /\ classes = <<>> /\ insts = <<>>
    /\ environment = GlobalsEnv
    /\ locals = [x \in {} |-> 0]
    /\ stdout = <<>> /\ stderr = <<>>
    /\ now = 1 /\ log = <<>> /\ calls = 0 /\ steps = 0
    /\ scanner = NewScanner(<<>>)
    /\ parser = NoParser
    /\ prompts = 0

\* run_prompt, line 47: the banner.
RunPrompt ==
    /\ pc = "run_prompt"
    /\ stdout' = Append(stdout, Line("banner", "pylox REPL; type 'exit()' to quit."))
    /\ pc' = "input"
    /\ UNCHANGED <<scanner, parser, prompts, src, statements, idx, had_error,
                   had_runtime_error, exit_status, exception, envs, funs, classes,
                   insts, environment, locals, stderr, now, log, calls, steps>>

\* run_prompt, lines 49-54 and 56-57: input writes the prompt and returns a
\* line, which run is called on; exit(), the end of the input and an
\* interrupt leave the loop.
Input ==
    /\ pc = "input"
    /\ stdout' = Append(stdout, Line("prompt", "> "))
    /\ \E more \in BOOLEAN :
          IF more /\ prompts < MaxLines
          THEN /\ \E line \in PromptLines : src' = line
               /\ prompts' = prompts + 1
               /\ pc' = "run"
               /\ UNCHANGED exit_status
          ELSE /\ pc' = "done"
               /\ exit_status' = 0
               /\ UNCHANGED <<src, prompts>>
    /\ UNCHANGED <<scanner, parser, statements, idx, had_error, had_runtime_error,
                   exception, envs, funs, classes, insts, environment, locals,
                   stderr, now, log, calls, steps>>

\* run_prompt, line 55: run has returned.
RunReturned ==
    /\ pc = "returned"
    /\ had_error' = FALSE
    /\ pc' = "input"
    /\ UNCHANGED <<scanner, parser, prompts, src, statements, idx, had_runtime_error,
                   exit_status, exception, envs, funs, classes, insts, environment,
                   locals, stdout, stderr, now, log, calls, steps>>

ReplNext ==
    \/ RunPrompt
    \/ Input
    \/ ScanTokens
    \/ Parse
    \/ Resolve
    \/ Interpret
    \/ InterpretStatement
    \/ InterpretEnd
    \/ RunReturned
    \/ Uncaught

ReplSpec == ReplInit /\ [][ReplNext]_vars

(***************************************************************************)
(* Lox.run on a token list: Parser.parse, one call of declaration at a     *)
(* step, then the resolver and the interpreter on what parse returned.     *)
(* The token lists are the scanner's for a few tokens put at the top       *)
(* level, in a block, in a function or method body, as the branch or body  *)
(* of if, while and for, and in a class whose body is not closed, each     *)
(* with a print statement after them.                                      *)
(***************************************************************************)
MaxMiddle == 3

Lexemes ==
    "SEMICOLON" :> ";" @@ "LEFT_BRACE" :> "{" @@ "RIGHT_BRACE" :> "}"
    @@ "LEFT_PAREN" :> "(" @@ "RIGHT_PAREN" :> ")" @@ "DOT" :> "."
    @@ "PRINT" :> "print" @@ "VAR" :> "var" @@ "FUN" :> "fun"
    @@ "CLASS" :> "class" @@ "IF" :> "if" @@ "ELSE" :> "else"
    @@ "WHILE" :> "while" @@ "FOR" :> "for" @@ "TRUE" :> "true"
    @@ "FALSE" :> "false" @@ "EOF" :> ""

\* The tokens scan_tokens makes of a one-line source.
Symbol(type) == Token(type, Lexemes[type], Nil, 1)
Name(lexeme) == Token("IDENTIFIER", lexeme, Nil, 1)
Number(n) == Token("NUMBER", ToString(n), Num(n), 1)

MiddleTokens ==
    {Symbol("SEMICOLON"), Symbol("PRINT"), Number(0), Symbol("LEFT_BRACE"),
     Symbol("RIGHT_BRACE"), Symbol("RIGHT_PAREN")}

Middles == UNION {[1..n -> MiddleTokens] : n \in 0..MaxMiddle}

PrintNumber(n) == <<Symbol("PRINT"), Number(n), Symbol("SEMICOLON")>>

Contexts ==
    {[before |-> <<>>, after |-> PrintNumber(1)],
     [before |-> <<Symbol("LEFT_BRACE")>>,
      after |-> PrintNumber(2) \o <<Symbol("RIGHT_BRACE")>>],
     [before |-> <<Symbol("FUN"), Name("f"), Symbol("LEFT_PAREN"),
                   Symbol("RIGHT_PAREN"), Symbol("LEFT_BRACE")>>,
      after |-> PrintNumber(3)
                \o <<Symbol("RIGHT_BRACE"), Name("f"), Symbol("LEFT_PAREN"),
                     Symbol("RIGHT_PAREN"), Symbol("SEMICOLON")>>],
     [before |-> <<Symbol("CLASS"), Name("A"), Symbol("LEFT_BRACE"), Name("m"),
                   Symbol("LEFT_PAREN"), Symbol("RIGHT_PAREN"),
                   Symbol("LEFT_BRACE")>>,
      after |-> PrintNumber(4)
                \o <<Symbol("RIGHT_BRACE"), Symbol("RIGHT_BRACE"), Name("A"),
                     Symbol("LEFT_PAREN"), Symbol("RIGHT_PAREN"), Symbol("DOT"),
                     Name("m"), Symbol("LEFT_PAREN"), Symbol("RIGHT_PAREN"),
                     Symbol("SEMICOLON")>>],
     [before |-> <<Symbol("IF"), Symbol("LEFT_PAREN"), Symbol("TRUE"),
                   Symbol("RIGHT_PAREN")>>,
      after |-> <<Symbol("ELSE")>> \o PrintNumber(5)],
     [before |-> <<Symbol("WHILE"), Symbol("LEFT_PAREN"), Symbol("FALSE"),
                   Symbol("RIGHT_PAREN")>>,
      after |-> PrintNumber(6)],
     [before |-> <<Symbol("FOR"), Symbol("LEFT_PAREN"), Symbol("SEMICOLON"),
                   Symbol("FALSE"), Symbol("SEMICOLON"), Symbol("RIGHT_PAREN")>>,
      after |-> PrintNumber(7)],
     [before |-> <<Symbol("CLASS"), Name("B"), Symbol("LEFT_BRACE"), Name("m"),
                   Symbol("LEFT_PAREN"), Symbol("RIGHT_PAREN"),
                   Symbol("LEFT_BRACE")>>,
      after |-> PrintNumber(8) \o <<Symbol("RIGHT_BRACE")>>]}

TokenLists ==
    {c.before \o m \o c.after \o <<Symbol("EOF")>> : c \in Contexts, m \in Middles}

ParseInit ==
    /\ LoxConstructed
    /\ scanner = NewScanner(<<>>)
    /\ parser \in {NewParser(tokens) : tokens \in TokenLists}

\* parse, lines 21-22: one turn of the loop.
ParseDeclaration ==
    /\ pc = "run_file"
    /\ parser.pc = "parse"
    /\ ~ParserIsAtEnd(parser)
    /\ \E r \in {declaration(parser)} :
          /\ parser' = IF r.sig = "ok"
                       THEN [r EXCEPT !.statements = Append(@, r.val)]
                       ELSE [r EXCEPT !.pc = r.sig]
          /\ stdout' = stdout \o Lines("parse error",
                                       SubSeq(r.out, Len(parser.out) + 1, Len(r.out)))
    /\ UNCHANGED <<pc, scanner, prompts, src, statements, idx, had_error,
                   had_runtime_error, exit_status, exception, envs, funs, classes,
                   insts, environment, locals, stderr, now, log, calls, steps>>

\* parse, line 23, and run's statements = parser.parse().
ParseReturn ==
    /\ pc = "run_file"
    /\ parser.pc = "parse"
    /\ ParserIsAtEnd(parser)
    /\ parser' = [parser EXCEPT !.pc = "returned"]
    /\ statements' = parser.statements
    /\ pc' = "parsed"
    /\ UNCHANGED <<scanner, prompts, src, idx, had_error, had_runtime_error,
                   exit_status, exception, envs, funs, classes, insts, environment,
                   locals, stdout, stderr, now, log, calls, steps>>

ParseNext ==
    \/ ParseDeclaration
    \/ ParseReturn
    \/ Resolve
    \/ Interpret
    \/ InterpretStatement
    \/ InterpretEnd

ParseSpec == ParseInit /\ [][ParseNext]_vars

\* Every enabled step of run is taken in the end.
ParseFairSpec == ParseSpec /\ WF_vars(ParseNext)

(***************************************************************************)
(* Properties.                                                             *)
(***************************************************************************)
\* The texts of the lines of one kind among the lines written to a stream.
RECURSIVE TextsOf(_, _)
TextsOf(lines, kind) ==
    IF lines = <<>> THEN <<>>
    ELSE (IF Head(lines).kind = kind THEN <<Head(lines).text>> ELSE <<>>)
         \o TextsOf(Tail(lines), kind)

Printed == TextsOf(stdout, "print")

Reported(kinds) == \E i \in 1..Len(stdout) : stdout[i].kind \in kinds

StaticErrorReported == Reported({"scan error", "parse error", "resolver error"})

\* The indices of the events of one kind.
EventsOf(ev) == {i \in 1..Len(log) : log[i].ev = ev}

\* The process has ended, or run_file has returned to its caller.
Ended == pc \in {"done", "exited"}

FileRead == \A i \in 1..Len(stderr) : stderr[i].kind # "io error"

\* The state of the heaps and of the depth table before run.
Untouched ==
    /\ envs = <<[enclosing |-> 0, values |-> Put(EmptyDict, "clock", NativeFn)]>>
    /\ funs = <<>> /\ classes = <<>> /\ insts = <<>>
    /\ environment = GlobalsEnv

\* C1: whenever the scanner, the parser or the resolver has reported an error
\* for the source, no statement of it is executed (no statement starts, no
\* print output, no binding changes), and after a parse error the resolver
\* is not run either.
NoExecutionAfterStaticError ==
    StaticErrorReported =>
        /\ steps = 0
        /\ Printed = <<>>
        /\ Untouched
        /\ Reported({"scan error", "parse error"}) =>
              /\ pc \notin {"resolved", "interpret"}
              /\ ~Reported({"resolver error"})
              /\ locals = [x \in {} |-> 0]

\* C2: run_file ends the process with status 65 when a scan, parse or
\* resolver error was reported, with status 70 when execution raised a
\* runtime error, and returns normally only when neither happened.
RunFileStatusFollowsErrors ==
    (Ended /\ FileRead) =>
        /\ StaticErrorReported => exit_status = 65
        /\ (~StaticErrorReported /\ EventsOf("raise") # {}) => exit_status = 70
        /\ pc = "done" => (~StaticErrorReported /\ EventsOf("raise") = {})

\* C3: once a runtime error has been raised in the k-th top-level statement,
\* nothing is executed after it: the raise is the last event of the run, and
\* from then on no statement starts, no line is printed, no runtime object
\* changes and the loop of interpret stays at k, so that what the statements
\* before it printed and bound remains.
NothingRunsAfterRuntimeError ==
    /\ [](\A i \in EventsOf("raise") : i = Len(log))
    /\ [][EventsOf("raise") # {} =>
             /\ steps' = steps /\ idx' = idx
             /\ TextsOf(stdout', "print") = Printed
             /\ envs' = envs /\ funs' = funs /\ classes' = classes
             /\ insts' = insts /\ log' = log]_vars

\* A runtime error was raised in the third statement of NegateString, after
\* the first two bound a and printed it; two statements follow it.
RuntimeErrorMidProgram ==
    /\ src = IndexOf(ProgNegateString)
    /\ Ended
    /\ EventsOf("raise") # {}
    /\ idx = 3 /\ idx < Len(statements)
    /\ Printed = <<"1">>
    /\ envs[GlobalsEnv].values["a"] = Num(1)

\* C4: a read or an assignment of a name that no environment of the chain
\* defines is caught by interpret and reported as a runtime error; it does
\* not leave run as an unhandled exception.
UndefinedVariableIsCaught ==
    (\E i \in EventsOf("raise") : log[i].v.s = "Undefined variable.") =>
        /\ exception = "none"
        /\ pc # "interpret" => Reported({"runtime error"})

\* C5: no diagnostic is written to standard output, which carries only the
\* output of print statements.
StdoutCarriesOnlyPrints ==
    \A i \in 1..Len(stdout) : stdout[i].kind = "print"

\* A statement that only declares and prints: var declarations and print
\* statements over literals and variables, and blocks of them.
RECURSIVE DeclaresOnly(_)
DeclaresOnly(stmt) ==
    CASE stmt.k = "Block" ->
            \A i \in 1..Len(stmt.statements) : DeclaresOnly(stmt.statements[i])
      [] stmt.k = "Var" -> stmt.initializer.k \in {"None", "Literal", "Variable"}
      [] stmt.k = "Print" -> stmt.expression.k \in {"Literal", "Variable"}
      [] OTHER -> FALSE

AtBlockOfDeclarations ==
    /\ pc = "interpret"
    /\ idx <= Len(statements)
    /\ statements[idx].k = "Block"
    /\ DeclaresOnly(statements[idx])

\* C6: a var declaration executed inside a block defines the name in the
\* block's environment only.  Executing a block of declarations changes no
\* binding of the environments that existed before it and leaves the current
\* environment as it was; in the scoping test the reads inside a block see
\* the innermost binding and the reads after it the enclosing binding with
\* its old value, and each environment ends with its own bindings; a
\* declaration that follows an assignment to the global of the same name
\* leaves the global with the assigned value.
BlockDeclarationsAreLocal ==
    /\ [][AtBlockOfDeclarations =>
             /\ SubSeq(envs', 1, Len(envs)) = envs
             /\ environment' = environment]_vars
    /\ []((Ended /\ FileRead /\ src = IndexOf(ProgScoping)) =>
             /\ Printed = <<"inner a", "outer b", "global c", "outer a", "outer b",
                            "global a", "global b">>
             /\ envs[GlobalsEnv].values["a"] = Str("global a")
             /\ envs[2] = [enclosing |-> GlobalsEnv,
                           values |-> Put(Put(EmptyDict, "a", Str("outer a")),
                                          "b", Str("outer b"))]
             /\ envs[3] = [enclosing |-> 2,
                           values |-> Put(EmptyDict, "a", Str("inner a"))])
    /\ []((Ended /\ FileRead /\ src = IndexOf(ProgShadow)) =>
             Printed = <<"inner", "outer">>)
    /\ []((Ended /\ FileRead /\ src = IndexOf(ProgBlockAssign)) =>
             /\ Printed = <<"3", "2">>
             /\ envs[GlobalsEnv].values["a"] = Num(2))

\* The scoping test has run: three environments, the two of the blocks
\* each shadowing a.
ScopingHasRun ==
    /\ src = IndexOf(ProgScoping)
    /\ pc = "done"
    /\ Len(envs) = 3
    /\ "a" \in DOMAIN envs[2].values /\ "a" \in DOMAIN envs[3].values
    /\ Len(Printed) = 7

\* C7: each call of a function runs its body in an environment of its own
\* (no other call and no declaration has it, and it is not the globals)
\* whose enclosing environment is the function's closure, which for a
\* declared function is the environment that was current when its
\* declaration was executed, wherever the call is made from; the counter
\* closure returns 1 and then 2 and leaves i = 2 in the environment of the
\* makeCounter call, and a function called from a scope or a function that
\* shadows its captured variable still reads the captured one.
CallsRunInClosure ==
    /\ \A c \in EventsOf("call") :
          /\ log[c].b # GlobalsEnv
          /\ envs[log[c].b].enclosing = funs[log[c].a].closure
          /\ \A d \in EventsOf("fun") :
                /\ log[d].a = log[c].a => envs[log[c].b].enclosing = log[d].b
                /\ d < c => log[d].b # log[c].b
          /\ \A c2 \in EventsOf("call") \ {c} : log[c2].b # log[c].b
    /\ (Ended /\ FileRead /\ src = IndexOf(ProgCounter)) =>
          /\ Printed = <<"1", "2">>
          /\ envs[2].values["i"] = Num(2)
    /\ (Ended /\ FileRead /\ src = IndexOf(ProgLexical)) => Printed = <<"outer">>
    /\ (Ended /\ FileRead /\ src = IndexOf(ProgGlobalFun)) => Printed = <<"global">>

\* The counter has been called twice from the top level, each time in an
\* environment whose enclosing environment is not the caller's.
CounterCalledTwice ==
    /\ src = IndexOf(ProgCounter)
    /\ pc = "done"
    /\ Cardinality(EventsOf("call")) = 3
    /\ Cardinality({c \in EventsOf("call") :
                       envs[log[c].b].enclosing # GlobalsEnv}) = 2

\* The return statements executed inside a call.
ReturnsInCalls == {i \in EventsOf("return") : log[i].frame > 0}

\* The return at i ends its call at once: the next event is the exit of
\* that call, and nothing else ever happens in it.
EndsItsCall(i) ==
    /\ i < Len(log)
    /\ log[i + 1].ev = "exit"
    /\ log[i + 1].frame = log[i].frame
    /\ \A j \in (i + 2)..Len(log) : log[j].frame # log[i].frame

\* The this of the function whose call exits at event j.
ThisOf(j) == envs[funs[log[j].a].closure].values["this"]

\* What the returns of the sample programs make their calls yield: an outer
\* call goes on after the inner one has returned.
ReturnSamples ==
    /\ (Ended /\ FileRead /\ src = IndexOf(ProgDeepReturn)) => Printed = <<"7", "end">>
    /\ (Ended /\ FileRead /\ src = IndexOf(ProgBareReturn)) => Printed = <<"nil">>
    /\ (Ended /\ FileRead /\ src = IndexOf(ProgNestedCalls)) =>
          Printed = <<"after g", "2">>
    /\ (Ended /\ FileRead /\ src = IndexOf(ProgReturnInIf)) =>
          Printed = <<"pos", "nonpos">>
    /\ (Ended /\ FileRead /\ src = IndexOf(ProgFactorial)) => Printed = <<"2">>

\* C8 as stated: a return inside a call, at any nesting depth, ends the
\* innermost active call at once, no later statement of the body runs, the
\* call evaluates to the returned value (nil when none is given), and the
\* outer calls go on.
ReturnYieldsItsValue ==
    /\ \A i \in ReturnsInCalls : EndsItsCall(i) /\ log[i + 1].v = log[i].v
    /\ ReturnSamples

\* C8 amended: a return inside a call, at any nesting depth, ends the
\* innermost active call at once, no later statement of the body runs and
\* the outer calls go on; the call evaluates to the returned value (nil when
\* none is given), except that the call of an initializer evaluates to the
\* instance bound as this.
ReturnEndsInnermostCall ==
    /\ \A i \in ReturnsInCalls :
          /\ EndsItsCall(i)
          /\ log[i + 1].v = IF funs[log[i + 1].a].is_initializer
                            THEN ThisOf(i + 1)
                            ELSE log[i].v
    /\ ReturnSamples

\* The return inside the block inside the loop of f has ended the call with
\* 7, and the statement after the call has run.
ReturnedFromLoop ==
    /\ src = IndexOf(ProgDeepReturn)
    /\ pc = "done"
    /\ \E i \in ReturnsInCalls : log[i].v = Num(7) /\ log[i + 1].v = Num(7)
    /\ Printed = <<"7", "end">>

\* C9: a call of a function object whose is_initializer flag is set returns
\* the instance bound as this in its closure, whether its body completes, or
\* executes a return, or the call is made directly on an instance; a call of
\* a class returns the instance it created, of that class, on which init has
\* just run, and not what a return inside init carried.
InitializerReturnsThis ==
    /\ \A j \in EventsOf("exit") :
          funs[log[j].a].is_initializer =>
              /\ log[j].v = ThisOf(j)
              /\ log[j].v.t = "LoxInstance"
    /\ \A k \in EventsOf("new") :
          /\ log[k].v = InstVal(log[k].b)
          /\ insts[log[k].b].klass = log[k].a
          /\ find_method(classes, log[k].a, "init") # 0 =>
                /\ log[k - 1].ev = "exit"
                /\ funs[log[k - 1].a].is_initializer
                /\ log[k - 1].v = log[k].v
    /\ (Ended /\ FileRead /\ src = IndexOf(ProgInitReturn)) =>
          /\ Printed = <<"1", "true">>
          /\ insts[1].fields["x"] = Num(1)
    /\ (Ended /\ FileRead /\ src = IndexOf(ProgInitValue)) =>
          Printed = <<"<A instance>", "<A instance>">>
    /\ (Ended /\ FileRead /\ src = IndexOf(ProgInitDirect)) =>
          /\ Printed = <<"true", "2">>
          /\ Len(insts) = 1
    /\ (Ended /\ FileRead /\ src = IndexOf(ProgCake)) =>
          Printed = <<"Mmm, chocolate cake!">>

\* init has run twice on the one instance of P, once from the call of the
\* class and once directly, and q is that instance.
InitializerCalledDirectly ==
    /\ src = IndexOf(ProgInitDirect)
    /\ pc = "done"
    /\ Cardinality({j \in EventsOf("exit") : funs[log[j].a].is_initializer}) = 2
    /\ Cardinality(EventsOf("new")) = 1
    /\ envs[GlobalsEnv].values["q"] = InstVal(1)

\* The classes from c upward, c first.
RECURSIVE ClassChain(_)
ClassChain(c) ==
    IF c = 0 THEN <<>> ELSE <<c>> \o ClassChain(classes[c].superclass)

\* The method of the first class of the chain of c that declares name, 0
\* when none does.
FirstDeclaring(c, name) ==
    LET chain == ClassChain(c)
        hits == {i \in 1..Len(chain) : name \in DOMAIN classes[chain[i]].methods}
    IN  IF hits = {} THEN 0
        ELSE classes[chain[CHOOSE i \in hits : \A j \in hits : i <= j]].methods[name]

MethodNames ==
    {"absent"} \cup UNION {DOMAIN classes[c].methods : c \in 1..Len(classes)}

\* The classes whose body holds the declaration of function object f.
DeclaringClasses(f) ==
    {c \in 1..Len(classes) :
        \E name \in DOMAIN classes[c].methods :
            funs[classes[c].methods[name]].declaration = funs[f].declaration}

\* The call inside which event k happened.
CallOf(k) == CHOOSE c \in EventsOf("call") : log[c].frame = log[k].frame

\* C10: a method lookup finds the method of the first class that declares
\* the name, going from the class up its superclasses, so that an override
\* wins; super.m inside a method starts at the superclass of the class whose
\* body holds the method, whatever the class of this is, finds the first
\* declaration of m from there, and binds it to the this of the running
\* method, which is the this of the call that follows.
MethodLookupFollowsChain ==
    /\ \A c \in 1..Len(classes) : \A name \in MethodNames :
          find_method(classes, c, name) = FirstDeclaring(c, name)
    /\ \A k \in EventsOf("super") :
          /\ \A B \in DeclaringClasses(log[CallOf(k)].a) :
                log[k].b = classes[B].superclass
          /\ DeclaringClasses(log[CallOf(k)].a) # {}
          /\ log[k].a = FirstDeclaring(log[k].b, funs[log[k].a].declaration.name)
          /\ log[k].v = ThisOf(CallOf(k))
          /\ (k < Len(log) /\ log[k + 1].ev = "call") =>
                /\ funs[log[k + 1].a].declaration = funs[log[k].a].declaration
                /\ ThisOf(k + 1) = log[k].v
    /\ (Ended /\ FileRead /\ src = IndexOf(ProgSuperChain)) => Printed = <<"A.m", "C.m">>
    /\ (Ended /\ FileRead /\ src = IndexOf(ProgOverride)) => Printed = <<"B.m", "A.n">>
    /\ (Ended /\ FileRead /\ src = IndexOf(ProgSuperThis)) => Printed = <<"bee">>
    /\ (Ended /\ FileRead /\ src = IndexOf(ProgDoughnut)) =>
          Printed = <<"Fry until golden brown.",
                      "Pipe full of custard and coat with chocolate.">>

\* super.m has been evaluated in the method t of B on an instance of C, a
\* class that overrides m: the lookup started at A.
SuperOnSubclassInstance ==
    /\ src = IndexOf(ProgSuperChain)
    /\ pc = "done"
    /\ \E k \in EventsOf("super") :
          /\ classes[insts[log[k].v.n].klass].name = "C"
          /\ classes[log[k].b].name = "A"
          /\ "m" \in DOMAIN classes[insts[log[k].v.n].klass].methods

\* Values of every variant, two of each where identity matters.
SampleValues ==
    {Nil, Bool(TRUE), Bool(FALSE), Num(0), Num(1), Num(2), Str("a"), Str("1"),
     Str(""), NativeFn, FunVal(1), FunVal(2), ClassVal(1), ClassVal(2),
     InstVal(1), InstVal(2)}

\* C11: == yields true only for two values of the same variant (nil and nil,
\* equal booleans, equal numbers, equal strings, the identical function, class
\* or instance); values of different variants are never equal, so that
\* true == 1 and false == 0 are false; != is the negation of ==.
EqualOnlyWithinVariant ==
    /\ \A a \in SampleValues : \A b \in SampleValues :
           is_equal(a, b) <=> (a.t = b.t /\ a = b)
    /\ (Ended /\ FileRead /\ src = IndexOf(ProgEquality)) =>
           Printed = <<"true", "true", "true", "true", "true", "true", "true",
                       "false", "false", "false", "false", "false", "false",
                       "true", "false", "true">>

\* The values an expression can yield in a state of the heaps.
ValuesIn(st) ==
    {Nil, Bool(TRUE), Bool(FALSE), NativeFn}
    \cup {Num(n) : n \in (0 - 1)..2}
    \cup {Str(s) : s \in {"", "a", "1"}}
    \cup {FunVal(i) : i \in 1..Len(st.funs)}
    \cup {ClassVal(i) : i \in 1..Len(st.classes)}
    \cup {InstVal(i) : i \in 1..Len(st.insts)}

\* The text of nil, of a boolean, of a number and of a string in a
\* concatenation.
ShownAs(v) ==
    CASE v = Nil -> "nil"
      [] v = Bool(TRUE) -> "true"
      [] v = Bool(FALSE) -> "false"
      [] v.t = "float" -> ToString(v.n)
      [] v.t = "str" -> v.s

\* left operator right over two operands that are already values.
BinaryOf(left, operator, right) ==
    evaluate(Binary(Literal(left), operator, Literal(right)), InterpreterState)

\* The evaluation raised the interpreter's RuntimeError and left no value.
RaisedRuntimeError(st, message) ==
    /\ st.sig = "RuntimeError"
    /\ Len(st.log) = Len(log) + 1
    /\ st.log[Len(st.log)].ev = "raise"
    /\ st.log[Len(st.log)].v.s = message
    /\ st.out = stdout

ArithmeticOperators == {"-", "*", "/", "<", "<=", ">", ">="}

\* C13: the binary operators - * / < <= > >= and unary - raise a runtime
\* error whenever an operand is not a number (a boolean, nil, a string, a
\* callable and an instance are not numbers); / raises one when both operands
\* are numbers and the right one is zero; in each case no value is produced.
NonNumbersAndZeroDivisorRaise ==
    /\ \A a \in ValuesIn(InterpreterState) :
          /\ a.t # "float" =>
                RaisedRuntimeError(
                    evaluate(Unary("-", Literal(a)), InterpreterState),
                    "Operand must be a number.")
          /\ \A b \in ValuesIn(InterpreterState) : \A operator \in ArithmeticOperators :
                /\ (a.t # "float" \/ b.t # "float") =>
                      RaisedRuntimeError(BinaryOf(a, operator, b),
                                         "Operands must be numbers.")
                /\ (a.t = "float" /\ b = Num(0) /\ operator = "/") =>
                      RaisedRuntimeError(BinaryOf(a, operator, b), "Division by zero.")
    /\ (Ended /\ FileRead /\ src = IndexOf(ProgOperators)) =>
          /\ Printed = <<"2", "6", "3", "true", "true", "false", "false", "-3", "3">>
          /\ \E i \in EventsOf("raise") : log[i].v.s = "Operands must be numbers."
    /\ (Ended /\ FileRead /\ src = IndexOf(ProgDivZero)) =>
          /\ Printed = <<>>
          /\ \E i \in EventsOf("raise") : log[i].v.s = "Division by zero."
    /\ (Ended /\ FileRead /\ src = IndexOf(ProgNegateString)) =>
          /\ Printed = <<"1">>
          /\ \E i \in EventsOf("raise") : log[i].v.s = "Operand must be a number."

\* The sample of operators has ended with the error of true < 1.
OperatorsSampleHasRun ==
    /\ Ended /\ FileRead /\ src = IndexOf(ProgOperators)
    /\ Len(Printed) = 9
    /\ Reported({"runtime error"})

\* The number of occurrences of a character in a source.
Occurrences(source, c) == Cardinality({i \in 1..Len(source) : source[i] = c})

\* The token list has one EOF token, the last, on the last line of the source.
EndsWithOneEof(sc) ==
    /\ sc.tokens # <<>>
    /\ \A i \in 1..Len(sc.tokens) : sc.tokens[i].type = "EOF" <=> i = Len(sc.tokens)
    /\ sc.tokens[Len(sc.tokens)].line = 1 + Occurrences(sc.source, "\n")

\* C14: for every source scan_tokens terminates and returns a token list
\* with exactly one EOF token, the last one, whose line is 1 plus the number
\* of newline characters of the source, those inside string literals and at
\* the end of comments included, also when scan errors were reported.
ScanTokensEndsWithOneEof ==
    /\ [](scanner.pc = "returned" => EndsWithOneEof(scanner))
    /\ <>(scanner.pc = "returned")

\* scan_tokens has returned for a source whose string literal holds a newline
\* and is not terminated, which was reported.
ScannedOpenStringOverTwoLines ==
    /\ scanner.pc = "returned"
    /\ scanner.source # <<>> /\ scanner.source[1] = "\""
    /\ Occurrences(scanner.source, "\n") = 1
    /\ Occurrences(scanner.source, "\"") = 1
    /\ scanner.out = <<"Unterminated string at line 2">>

\* { init; while (cond) { body; incr; } } for the clauses of a for statement:
\* an omitted condition is true, an omitted initializer or increment is left
\* out.
WhileForm(initializer, condition, increment, body) ==
    Block((IF initializer = NoStmt THEN <<>> ELSE <<initializer>>)
          \o <<While(IF condition = NoExpr THEN Literal(Bool(TRUE)) ELSE condition,
                     Block(<<body>>
                           \o (IF increment = NoExpr THEN <<>>
                               ELSE <<Expression(increment)>>)))>>)

\* The interpreter after run has resolved and interpreted the statements on
\* a new Lox object: its output with the report of a runtime error, the
\* exception that left interpret in sig.
RunOf(stmts) ==
    Let(resolve_statements(stmts, NewResolver([x \in {} |-> 0])),
        LAMBDA rs :
    Let(ExecuteFrom(stmts, 1,
            [envs |-> <<[enclosing |-> 0,
                         values |-> Put(EmptyDict, "clock", NativeFn)]>>,
             funs |-> <<>>, classes |-> <<>>, insts |-> <<>>,
             env |-> GlobalsEnv, locals |-> rs.locals,
             out |-> Lines("resolver error", rs.diags), now |-> 1,
             sig |-> "ok", val |-> Nil, args |-> <<>>,
             frame |-> 0, calls |-> 0, steps |-> 0, log |-> <<>>]),
        LAMBDA st :
    IF Outcome(st.sig) = "caught"
    THEN [st EXCEPT !.out = ReportRuntimeError(st.out, st.val.s)]
    ELSE st))

\* The for statement of the test, put together again from its clauses.
ForLoopOfTheTest ==
    LET stmt == ProgForLoop.statements[1]
        loop == stmt.statements[2]
    IN  for_statement(stmt.statements[1], loop.condition,
                      loop.body.statements[2].expression,
                      loop.body.statements[1])

\* C15: executing the statement the parser builds for a for statement has the
\* same effect (output, bindings of the surrounding environments, runtime
\* errors) as executing { init; while (cond) { body; incr; } }, an omitted
\* condition being true and an omitted initializer or increment nothing; a
\* variable declared in the initializer is not visible after the loop.
ForBehavesAsWhile ==
    /\ ForLoopOfTheTest = ProgForLoop.statements[1]
    /\ (parser.pc = "returned" /\ pc \in {"returned", "raised"}) =>
          LET ref == RunOf(ForPrologue
                           \o <<WhileForm(parser.initializer, parser.condition,
                                          parser.increment, parser.body)>>
                           \o ForEpilogue)
          IN  /\ ref.sig # "StepBound"
              /\ stdout = ref.out
              /\ exception = (IF Outcome(ref.sig) = "propagate" THEN ref.sig ELSE "none")
              /\ envs[GlobalsEnv].values = ref.envs[GlobalsEnv].values
              /\ environment = ref.env
              /\ parser.initializer.k = "Var" =>
                    /\ envs[GlobalsEnv].values["i"] = Num(0)
                    /\ ~Reported({"runtime error"}) =>
                          /\ Len(Printed) >= 2
                          /\ Printed[Len(Printed) - 1] = "0"

\* A for statement with its three clauses, the initializer a declaration, has
\* run through its turns and the statements after it.
ForWithAllClausesHasRun ==
    /\ parser.pc = "returned" /\ pc = "returned"
    /\ parser.initializer.k = "Var"
    /\ parser.condition # NoExpr
    /\ parser.increment # NoExpr
    /\ Printed = <<"1", "0", "1">>

\* The number of parameters a callee takes: those of the function, those of
\* the init of the first class of the chain that declares one, else none.
ParametersOf(callee) ==
    CASE callee.t = "LoxFunction" -> Len(funs[callee.n].declaration.params)
      [] callee.t = "LoxClass" ->
            LET init == FirstDeclaring(callee.n, "init")
            IN  IF init = 0 THEN 0 ELSE Len(funs[init].declaration.params)
      [] OTHER -> 0

ArgumentLists == {<<>>, <<Num(1)>>, <<Nil, Num(2)>>, <<Num(1), Num(2), Num(3)>>}

\* The calls of the functions declared with this name.
CallsOf(name) ==
    {k \in EventsOf("call") : funs[log[k].a].declaration.name = name}

MaxDistance == 2

\* The names bound in some environment, and one bound nowhere.
NamesBound == {"absent"} \cup UNION {DOMAIN envs[e].values : e \in 1..Len(envs)}

\* The environment d hops out from e, 0 when the chain ends before.
RECURSIVE HopsOut(_, _)
HopsOut(e, d) ==
    IF e = 0 \/ d = 0 THEN e ELSE HopsOut(envs[e].enclosing, d - 1)

\* The interpreter in environment e, its depth table holding the entry
\* distance for node 1, or no entry for it.
Resolved(e, distance) ==
    [InterpreterState EXCEPT !.env = e, !.locals = [x \in {1} |-> distance]]

Unresolved(e) ==
    [InterpreterState EXCEPT !.env = e, !.locals = [x \in {} |-> 0]]

\* The environments are as they were, but for name bound to v in target.
OnlyChanged(st, target, name, v) ==
    st.envs = [envs EXCEPT ![target].values = Put(@, name, v)]

\* The read yields the binding of name in target, and fails when target is
\* missing or has no such binding; it changes no environment.
ReadsOnly(st, target, name) ==
    /\ st.envs = envs
    /\ IF target # 0 /\ name \in DOMAIN envs[target].values
       THEN st.sig = "ok" /\ st.val = envs[target].values[name]
       ELSE st.sig \in {"KeyError", "AttributeError", "environment.RuntimeError"}

\* C17: a Variable, Assign or This node with entry d in the depth table reads
\* or writes only the environment d hops out from the current one and never
\* falls back to another one; such a node without an entry consults only the
\* globals, even when the current chain binds the name.
ResolvedNodesUseOneEnvironment ==
    /\ \A e \in 1..Len(envs) : \A name \in NamesBound :
          /\ \A d \in 0..MaxDistance :
                LET target == HopsOut(e, d)
                    written == evaluate(Assign(1, name, Literal(Num(7))), Resolved(e, d))
                IN  /\ ReadsOnly(evaluate(Variable(1, name), Resolved(e, d)), target, name)
                    /\ ReadsOnly(evaluate(This(1), Resolved(e, d)), target, "this")
                    /\ IF target # 0
                       THEN written.sig = "ok" /\ OnlyChanged(written, target, name, Num(7))
                       ELSE written.sig = "AttributeError" /\ written.envs = envs
          /\ LET written == evaluate(Assign(1, name, Literal(Num(7))), Unresolved(e))
             IN  /\ ReadsOnly(evaluate(Variable(1, name), Unresolved(e)), GlobalsEnv, name)
                 /\ ReadsOnly(evaluate(This(1), Unresolved(e)), GlobalsEnv, "this")
                 /\ IF name \in DOMAIN envs[GlobalsEnv].values
                    THEN written.sig = "ok" /\ OnlyChanged(written, GlobalsEnv, name, Num(7))
                    ELSE written.sig = "environment.RuntimeError" /\ written.envs = envs
    /\ (Ended /\ FileRead /\ src = IndexOf(ProgLateShadow)) =>
          /\ Printed = <<"set", "block", "set">>
          /\ envs[GlobalsEnv].values["a"] = Str("set")
    /\ (Ended /\ FileRead /\ src = IndexOf(ProgBlockAssign)) =>
          Printed = <<"3", "2">>

\* The function that assigns the global a has run inside the block that
\* declares a local a, and the run has ended.
GlobalAssignedUnderLocal ==
    /\ Ended /\ FileRead /\ src = IndexOf(ProgLateShadow)
    /\ Printed = <<"set", "block", "set">>
    /\ \E e \in 2..Len(envs) :
          "a" \in DOMAIN envs[e].values /\ envs[e].values["a"] = Str("block")

\* Blocks that end normally, by a return, by a runtime error and by the
\* error of an undefined variable, each from inside a nested block.
BlockSamples ==
    {Block(<<Var("x", Literal(Num(1))), Block(<<Var("y", Literal(Num(2)))>>)>>),
     Block(<<Var("x", Literal(Num(1))), Block(<<Return(Literal(Num(2)))>>),
             PrintStmt(Literal(Str("after")))>>),
     Block(<<Block(<<Expression(Unary("-", Literal(Nil)))>>),
             PrintStmt(Literal(Str("after")))>>),
     Block(<<Block(<<PrintStmt(Variable(1, "absent"))>>),
             PrintStmt(Literal(Str("after")))>>)}

\* The interpreter about to run something in environment e.
InEnvironment(e) == [InterpreterState EXCEPT !.env = e]

\* C18: execute_block restores the current environment to the one of its
\* entry however it exits (normal completion, Return unwind, runtime error),
\* so that after every block statement and every function call the current
\* environment of the caller is the one it was before.
BlocksRestoreTheEnvironment ==
    /\ environment = GlobalsEnv
    /\ \A e \in 1..Len(envs) :
          /\ \A blk \in BlockSamples :
                LET st == execute(blk, InEnvironment(e))
                IN  st.sig \in {"ok", "ReturnException", "RuntimeError",
                                "environment.RuntimeError", "StepBound"}
                    /\ st.env = e
          /\ \A f \in 1..Len(funs) :
                LET arguments == [n \in 1..Len(funs[f].declaration.params) |-> Nil]
                    st == FinishCall(FunVal(f), arguments, "ok", InEnvironment(e))
                IN  st.env = e

\* A call has ended by a return from inside a block inside a loop, and the
\* statement after the call has run.
ReturnedThroughBlocks ==
    /\ Ended /\ FileRead /\ src = IndexOf(ProgDeepReturn)
    /\ Printed = <<"7", "end">>
    /\ environment = GlobalsEnv
    /\ Len(envs) > 3

\* The ids of the nodes of one kind (This, Super) inside an expression.
RECURSIVE NodesIn(_, _)
NodesIn(expr, kind) ==
    LET here == IF expr.k = kind THEN {expr.id} ELSE {}
        inside(e) == NodesIn(e, kind)
    IN  here \cup
        CASE expr.k \in {"Binary", "Logical"} -> inside(expr.left) \cup inside(expr.right)
          [] expr.k = "Grouping" -> inside(expr.expression)
          [] expr.k = "Unary" -> inside(expr.right)
          [] expr.k = "Assign" -> inside(expr.value)
          [] expr.k = "Call" ->
                inside(expr.callee)
                \cup UNION {inside(expr.arguments[n]) : n \in 1..Len(expr.arguments)}
          [] expr.k = "Get" -> inside(expr.object)
          [] expr.k = "Set" -> inside(expr.object) \cup inside(expr.value)
          [] OTHER -> {}

\* The ids of the nodes of one kind placed directly in the body of a method:
\* in a statement of the body, not in a block or a function inside it.
DirectlyIn(method, kind) ==
    UNION {LET stmt == method.body[n]
           IN  CASE stmt.k \in {"Expression", "Print"} -> NodesIn(stmt.expression, kind)
                 [] stmt.k = "Return" -> NodesIn(stmt.value, kind)
                 [] stmt.k = "Var" -> NodesIn(stmt.initializer, kind)
                 [] stmt.k \in {"If", "While"} -> NodesIn(stmt.condition, kind)
                 [] OTHER -> {}
           : n \in 1..Len(method.body)}

\* The class declarations at the top level of the program.
ClassDeclarations ==
    {statements[n] : n \in {m \in 1..Len(statements) : statements[m].k = "Class"}}

\* The nodes of one kind directly in the methods of a class declaration.
InMethodsOf(class, kind) ==
    UNION {DirectlyIn(class.methods[n], kind) : n \in 1..Len(class.methods)}

\* The resolver has run over the statements without an error.
ResolverHasRun == pc \in {"resolved", "interpret"} /\ ~had_error

\* The depth table holds this depth for the node.
DepthIs(id, depth) == id \in DOMAIN locals /\ locals[id] = depth

\* C19, as stated: for a this placed directly in a method body the resolver
\* records depth 1 when the class declares no superclass and depth 2 when it
\* declares one.
ThisDepthGrowsWithSuperclass ==
    ResolverHasRun =>
        \A class \in ClassDeclarations : \A id \in InMethodsOf(class, "This") :
            DepthIs(id, IF class.superclass = NoExpr THEN 1 ELSE 2)

\* C19, corrected: for a this placed directly in a method body the resolver
\* records depth 1 whether or not the class declares a superclass; the scope
\* of super lies outside the scope of this, and a super placed directly in a
\* method body gets depth 2.
ThisDepthIsOne ==
    ResolverHasRun =>
        \A class \in ClassDeclarations :
            /\ \A id \in InMethodsOf(class, "This") : DepthIs(id, 1)
            /\ \A id \in InMethodsOf(class, "Super") : DepthIs(id, 2)

\* The resolver has run over a subclass whose methods hold this and super.
SubclassWithThisResolved ==
    /\ ResolverHasRun
    /\ \E class \in ClassDeclarations :
          /\ class.superclass # NoExpr
          /\ InMethodsOf(class, "This") # {}
          /\ InMethodsOf(class, "Super") # {}

\* C20: a class declaration defines the class name as nil in the current
\* environment before the superclass expression is evaluated, so that when
\* the declaration fails because the superclass is undefined or is not a
\* class, the class name is already bound to nil.
ClassNameBoundBeforeSuperclass ==
    /\ (Ended /\ FileRead /\ src = IndexOf(ProgSuperNotClass)) =>
          /\ \E i \in EventsOf("raise") : log[i].v.s = "Superclass must be a class."
          /\ "B" \in DOMAIN envs[GlobalsEnv].values
          /\ envs[GlobalsEnv].values["B"] = Nil
    /\ (Ended /\ FileRead /\ src = IndexOf(ProgSuperUndefined)) =>
          /\ "B" \in DOMAIN envs[GlobalsEnv].values
          /\ envs[GlobalsEnv].values["B"] = Nil

\* The names of the fields and of the methods there are, and one that is
\* neither.
PropertyNames ==
    MethodNames \cup UNION {DOMAIN insts[i].fields : i \in 1..Len(insts)}

\* object.name and object.name = v on instance i, as expressions.
GetOf(st, i, name) == evaluate(Get(Literal(InstVal(i)), name), st)

SetOf(st, i, name, v) == evaluate(Set(Literal(InstVal(i)), name, Literal(v)), st)

\* Between before and after only the field table of instance i differs, and
\* in it only the entry of name, which is v.
OnlyFieldChanged(before, after, i, name, v) ==
    /\ [after EXCEPT !.insts = before.insts, !.val = before.val] = before
    /\ Len(after.insts) = Len(before.insts)
    /\ \A j \in 1..Len(before.insts) : j # i => after.insts[j] = before.insts[j]
    /\ after.insts[i].klass = before.insts[i].klass
    /\ DOMAIN after.insts[i].fields = DOMAIN before.insts[i].fields \cup {name}
    /\ \A other \in DOMAIN before.insts[i].fields :
          other # name => after.insts[i].fields[other] = before.insts[i].fields[other]
    /\ after.insts[i].fields[name] = v

\* No class of the chain of instance i declares a method of that name.
NoMethodNamed(i, name) ==
    LET chain == ClassChain(insts[i].klass)
    IN  \A n \in 1..Len(chain) : name \notin DOMAIN classes[chain[n]].methods

\* C21: on an instance, set(name, v) always succeeds and changes only that
\* instance's field table; every later get(name) on that instance returns the
\* last value set, even when its class or a superclass has a method of that
\* name; get of a name that is neither a field nor a method of the class
\* chain raises an undefined-property runtime error and leaves the fields
\* unchanged.
FieldWinsOverMethod ==
    /\ \A i \in 1..Len(insts) : \A name \in PropertyNames :
          /\ \A v \in {Nil, Num(7), InstVal(i)} :
                LET s1 == SetOf(InterpreterState, i, name, v)
                    s2 == SetOf(s1, i, name, Str("last"))
                    g1 == GetOf(s1, i, name)
                    g2 == GetOf(s2, i, name)
                IN  /\ s1.sig = "ok" /\ s2.sig = "ok"
                    /\ OnlyFieldChanged(InterpreterState, s1, i, name, v)
                    /\ OnlyFieldChanged(s1, s2, i, name, Str("last"))
                    /\ g1.sig = "ok" /\ g1.val = v /\ g1.insts = s1.insts
                    /\ g2.sig = "ok" /\ g2.val = Str("last") /\ g2.insts = s2.insts
                    /\ GetOf(g2, i, name) = g2
          /\ (name \notin DOMAIN insts[i].fields /\ NoMethodNamed(i, name)) =>
                LET g == GetOf(InterpreterState, i, name)
                IN  /\ RaisedRuntimeError(g, "Undefined property.")
                    /\ g.insts = insts
    /\ (Ended /\ FileRead /\ src = IndexOf(ProgFields)) =>
          /\ Printed = <<"method", "field", "again", "method", "1">>
          /\ \E i \in EventsOf("raise") : log[i].v.s = "Undefined property."

\* An instance has a field named as a method it inherits, and the run has
\* ended with the error of a property that is not defined.
FieldNamedAsInheritedMethod ==
    /\ Ended /\ FileRead /\ src = IndexOf(ProgFields)
    /\ Printed = <<"method", "field", "again", "method", "1">>
    /\ Reported({"runtime error"})
    /\ \E i \in 1..Len(insts) :
          /\ "m" \in DOMAIN insts[i].fields
          /\ ~NoMethodNamed(i, "m")
          /\ insts[i].fields["m"] = Str("again")

\* The number of hops from e to the nearest environment of its chain that
\* defines name: the set is empty when none does.
DefiningHops(e, name) ==
    {d \in 0..Len(envs) : HopsOut(e, d) # 0 /\ name \in DOMAIN envs[HopsOut(e, d)].values}

\* C26: Environment.assign(name, v) changes exactly one binding, that of
\* name in the nearest environment of the chain, starting at the receiver,
\* that defines name, and leaves every other binding of every environment
\* unchanged; when no environment of the chain defines name it fails with an
\* undefined-variable error, creates no binding and changes nothing.
AssignChangesNearestBinding ==
    \A e \in 1..Len(envs) : \A name \in NamesBound : \A v \in {Nil, Num(7)} :
        LET st == EnvAssign(InterpreterState, e, name, v)
            hops == DefiningHops(e, name)
        IN  IF hops # {}
            THEN LET nearest == HopsOut(e, CHOOSE d \in hops : \A d2 \in hops : d <= d2)
                 IN  /\ st.sig = "ok"
                     /\ OnlyChanged(st, nearest, name, v)
                     /\ DOMAIN st.envs[nearest].values = DOMAIN envs[nearest].values
                     /\ [st EXCEPT !.envs = envs] = InterpreterState
            ELSE /\ st.sig = "environment.RuntimeError"
                 /\ st.val = Str("Undefined variable.")
                 /\ st.envs = envs
                 /\ [st EXCEPT !.sig = "ok", !.val = Nil, !.log = log] = InterpreterState

\* An assignment has changed the binding of a in the globals, and a block
\* environment that encloses onto the globals binds a too.
AssignedBelowShadowingBlock ==
    /\ Ended /\ FileRead /\ src = IndexOf(ProgBlockAssign)
    /\ Printed = <<"3", "2">>
    /\ envs[GlobalsEnv].values["a"] = Num(2)
    /\ \E e \in 2..Len(envs) :
          /\ DefiningHops(e, "a") = {0, 1}
          /\ envs[e].values["a"] = Num(3)

\* Scope stacks the resolver can stand in when it meets var x = init; inside
\* a block: x is new, x shadows an outer x, x is already in the same scope.
ScopeStacks ==
    {<<[n \in {} |-> TRUE]>>,
     <<[n \in {"x"} |-> TRUE], [n \in {"y"} |-> TRUE]>>,
     <<[n \in {"y"} |-> TRUE], [n \in {"x", "f"} |-> TRUE]>>}

\* Initializers: x, 1 + x, f(x), y, 1.  The reference to x is node 1.
Initializers ==
    {Variable(1, "x"),
     Binary(Literal(Num(1)), "+", Variable(1, "x")),
     Call(Variable(2, "f"), <<Variable(1, "x")>>),
     Variable(3, "y"),
     Literal(Num(1))}

OwnInitializerError(name) ==
    "Error: Can't read local variable '" \o name \o "' in its own initializer."

\* The resolver with that scope stack, inside no function and no class.
ResolverIn(scopes) == [NewResolver([n \in {} |-> 0]) EXCEPT !.scopes = scopes]

\* The flag of name in the innermost scope: "absent" when the scope does not
\* hold the name or there is no scope.
InnermostFlag(rs, name) ==
    IF rs.scopes = <<>> THEN "absent"
    ELSE IF name \notin DOMAIN rs.scopes[Len(rs.scopes)] THEN "absent"
    ELSE IF rs.scopes[Len(rs.scopes)][name] THEN "true"
    ELSE "false"

Holds(diags, message) == \E n \in 1..Len(diags) : diags[n] = message

\* C24: while the resolver resolves the initializer of var x = init; in a
\* non-global scope, x is in the innermost scope with flag false, and it is
\* set to true only after the initializer has been resolved; a Variable
\* reference to x inside init is reported as the static error of a read in
\* its own initializer, whereas the same statement at global scope (empty
\* scope stack) is not reported.
VarDeclaredBeforeInitializer ==
    /\ \A init \in Initializers :
          /\ \A scopes \in ScopeStacks :
                LET rs == ResolverIn(scopes)
                    declared == declare(rs, "x")
                    resolved == resolve_expr(init, declared)
                    after == ResolverVisitVarStmt(Var("x", init), rs)
                    next == resolve_expr(Variable(4, "x"), after)
                IN  /\ InnermostFlag(declared, "x") = "false"
                    /\ InnermostFlag(resolved, "x") = "false"
                    /\ InnermostFlag(after, "x") = "true"
                    /\ after.locals = resolved.locals
                    /\ after.diags = resolved.diags
                    /\ Holds(after.diags, OwnInitializerError("x"))
                          <=> 1 \in NodesIn(init, "Variable")
                    /\ 1 \in NodesIn(init, "Variable") =>
                          1 \in DOMAIN after.locals /\ after.locals[1] = 0
                    /\ next.diags = after.diags
          /\ LET after == ResolverVisitVarStmt(Var("x", init), ResolverIn(<<>>))
             IN  after.scopes = <<>> /\ after.diags = <<>> /\ after.locals = [n \in {} |-> 0]
    /\ (src = IndexOf(ProgOwnInit) /\ pc = "resolved") =>
          TextsOf(stdout, "resolver error") = <<OwnInitializerError("a")>>
    /\ (src = IndexOf(ProgGlobalOwnInit) /\ Ended /\ FileRead) =>
          ~StaticErrorReported /\ Printed = <<"2">>

\* The resolver has reported the block-local a that is read in its own
\* initializer.
OwnInitializerReported ==
    /\ src = IndexOf(ProgOwnInit)
    /\ pc = "resolved"
    /\ Holds(TextsOf(stdout, "resolver error"), OwnInitializerError("a"))

\* A statement and the statements inside it.
RECURSIVE StatementsIn(_)
StatementsIn(stmt) ==
    LET all(list) == UNION {StatementsIn(list[n]) : n \in 1..Len(list)}
    IN  IF stmt.k = "None" THEN {}
        ELSE {stmt} \cup
             CASE stmt.k = "Block" -> all(stmt.statements)
               [] stmt.k = "Function" -> all(stmt.body)
               [] stmt.k = "Class" ->
                     UNION {all(stmt.methods[n].body) : n \in 1..Len(stmt.methods)}
               [] stmt.k = "If" ->
                     StatementsIn(stmt.then_branch) \cup StatementsIn(stmt.else_branch)
               [] stmt.k = "While" -> StatementsIn(stmt.body)
               [] OTHER -> {}

\* The resolver at global scope or inside blocks, inside every kind of
\* function and of class.
ResolverContexts ==
    {[ResolverIn(scopes) EXCEPT !.current_function = fn, !.current_class = cls] :
        scopes \in {<<>>} \cup ScopeStacks,
        fn \in {"NONE", "FUNCTION", "INITIALIZER", "METHOD"},
        cls \in {"NONE", "CLASS", "SUBCLASS"}}

\* The parser has returned the statements and the resolver has not run yet.
Parsed == pc = "parsed"

\* C25: resolving any statement leaves the resolver's scope stack at the
\* height it had before the statement and leaves current_function and
\* current_class at their previous values, also when static errors are
\* reported; after resolve_statements on a whole program the scope stack is
\* empty and both kinds are none.
ResolverScopesBalanced ==
    Parsed =>
        /\ \A n \in 1..Len(statements) : \A stmt \in StatementsIn(statements[n]) :
              \A rs \in ResolverContexts :
                 LET after == resolve_stmt(stmt, rs)
                 IN  /\ Len(after.scopes) = Len(rs.scopes)
                     /\ \A k \in 1..(Len(rs.scopes) - 1) : after.scopes[k] = rs.scopes[k]
                     /\ after.current_function = rs.current_function
                     /\ after.current_class = rs.current_class
        /\ LET after == resolve_statements(statements, NewResolver(locals))
           IN  /\ after.scopes = <<>>
               /\ after.current_function = "NONE"
               /\ after.current_class = "NONE"

\* The resolver has gone through a subclass, an initializer, a method with a
\* block and a function, and has reported every kind of static error.
EveryStaticErrorReported ==
    /\ src = IndexOf(ProgStaticErrors)
    /\ pc = "resolved"
    /\ TextsOf(stdout, "resolver error") =
          <<"Error: A class can't inherit from itself.",
            "Error: Can't return a value from an initializer.",
            "Error: Already a variable with name 'a' in this scope.",
            OwnInitializerError("a"),
            "Error: Can't use 'this' outside of a class.",
            "Error: Can't use 'super' outside of a class.",
            "Error: Can't return from top-level code.">>

\* C28: no Return unwind escapes Interpreter.interpret: each ReturnException
\* raised by a return statement is raised inside a call of a function, whose
\* LoxFunction.call catches it, also for a return written at top level
\* outside any function.
ReturnNeverLeavesInterpret ==
    /\ exception # "ReturnException"
    /\ \A i \in EventsOf("return") : log[i].frame > 0

\* The evaluations so far of nodes that have a depth-table entry.
ResolvedAccesses == EventsOf("get_at") \cup EventsOf("assign_at")

\* C27: for every program for which scanner, parser and resolver report no
\* error, at every evaluation of a node that has depth-table entry d
\* (Variable, Assign, This, Super) the environment d hops out from the
\* interpreter's current environment exists and already defines the
\* referenced name, so get_at never fails on a missing key and assign_at
\* never creates a new binding.
ResolvedNamesAreBound ==
    ~StaticErrorReported =>
        /\ \A i \in ResolvedAccesses : log[i].a # 0 /\ log[i].v.t = "bound"
        /\ exception \notin {"KeyError", "AttributeError"}

\* A program without static errors has ended after it read and assigned a
\* local two environments out, read this two environments out, and read
\* super.
ResolvedNodesEvaluated ==
    /\ Ended /\ FileRead /\ ~StaticErrorReported
    /\ \/ /\ src = IndexOf(ProgDepths)
          /\ Printed = <<"2", "5", "2">>
          /\ \E i \in EventsOf("assign_at") : log[i].b = 2 /\ log[i].v.s = "a"
       \/ /\ src = IndexOf(ProgLocalClass)
          /\ Printed = <<"x", "x">>
          /\ \E i \in EventsOf("get_at") : log[i].b = 2 /\ log[i].v.s = "this"
          /\ \E i \in EventsOf("get_at") : log[i].v.s = "super"

\* What the globals bind.
Globals == envs[GlobalsEnv].values

\* C30: whenever Interpreter.interpret returns or is left by an exception,
\* the interpreter's current environment is the globals environment again
\* (the environment that a class declaration pushes for super is always
\* popped, and every block and call environment is unwound), so the next run
\* on the same Lox object, as at the prompt, starts at global scope with the
\* globals defined by earlier runs intact.
InterpretLeavesAtGlobals ==
    /\ [](pc # "interpret" => environment = GlobalsEnv)
    /\ [](envs[GlobalsEnv].enclosing = 0 /\ "clock" \in DOMAIN Globals)
    /\ [][/\ pc # "interpret" => envs' = envs
          /\ DOMAIN Globals \subseteq DOMAIN Globals'
          /\ (pc = "resolved" /\ pc' = "interpret") =>
                /\ environment' = GlobalsEnv
                /\ Globals' = Globals]_vars

\* At the prompt a third line is about to run after the first declared a
\* global and a subclass and the second ended with a runtime error raised in
\* a block in a method called from a block.
ThirdLineStartsAtGlobals ==
    /\ pc = "interpret" /\ idx = 1 /\ prompts = 3
    /\ src = IndexOf(ProgLineUse)
    /\ TextsOf(stdout, "runtime error") = <<"Runtime error: Operand must be a number.">>
    /\ environment = GlobalsEnv
    /\ {"a", "A", "B"} \subseteq DOMAIN Globals
    /\ Len(envs) > 4


\* The calls of synchronize the parser has made.
Synchronized == {i \in 1..Len(parser.log) : parser.log[i].ev = "synchronize"}

\* Where synchronize may leave a parser that it found at token index from.
SynchronizePostcondition(ps, from) ==
    /\ \/ ps.tokens[ps.current + 1].type = "EOF"
       \/ ps.current > 0 /\ ps.tokens[ps.current].type = "SEMICOLON"
       \/ ps.tokens[ps.current + 1].type
             \in {"CLASS", "FUN", "VAR", "FOR", "IF", "WHILE", "PRINT", "RETURN"}
    /\ ps.current > from \/ ps.tokens[from + 1].type = "EOF"
    /\ ps.current >= from

\* C22: when synchronize returns, the parser is at the EOF token, or the
\* last consumed token is `;', or the current token is one of class, fun,
\* var, for, if, while, print, return; and it has consumed at least one
\* token unless the parser was at EOF already.  This holds of every call
\* made after a parse error, and of a call made at any token of the list
\* (examined once, before parse begins).
SynchronizeStopsAtBoundary ==
    parser.pc \in {"parse", "returned"} =>
        /\ \A i \in Synchronized :
              SynchronizePostcondition([parser EXCEPT !.current = parser.log[i].to],
                                       parser.log[i].from)
        /\ parser.steps = 0 =>
              \A from \in 0..(Len(parser.tokens) - 1) :
                 SynchronizePostcondition(
                     synchronize([parser EXCEPT !.current = from]), from)

\* C22 witness: one parse has recovered three times: by skipping to just
\* past a `;', by stopping before a keyword, and at EOF without a token
\* left to consume.
SynchronizedThreeWays ==
    /\ parser.pc = "returned"
    /\ \E i, j, k \in Synchronized :
          /\ parser.tokens[parser.log[i].to].type = "SEMICOLON"
          /\ parser.tokens[parser.log[i].to + 1].type \notin StatementKeywords \cup {"EOF"}
          /\ parser.log[i].to > parser.log[i].from + 1
          /\ parser.tokens[parser.log[j].to].type # "SEMICOLON"
          /\ parser.tokens[parser.log[j].to + 1].type \in StatementKeywords
          /\ parser.log[k].to = parser.log[k].from
          /\ parser.tokens[parser.log[k].to + 1].type = "EOF"


\* The calls of declaration the parser has made.
Declared == {i \in 1..Len(parser.log) : parser.log[i].ev = "declaration"}

\* The parser at token index from, as parse has left it otherwise.
ParserAt(from) == [parser EXCEPT !.current = from]

\* The parser is at `}' or at EOF.
AtBraceOrEnd(ps) == ps.tokens[ps.current + 1].type \in {"RIGHT_BRACE", "EOF"}

\* Every call of declaration made so far, and a call at any token but EOF,
\* returns having consumed a token; the loops of block and of the class
\* body, begun at any token, come to an end, the one at `}' or EOF, the
\* other there or by a parse error.  The calls at any token are examined
\* once, before parse begins.
ParserAdvances ==
    /\ parser.pc # "StepBound"
    /\ \A i \in Declared : parser.log[i].to > parser.log[i].from
    /\ parser.steps = 0 =>
          \A from \in 0..(Len(parser.tokens) - 1) :
             /\ parser.tokens[from + 1].type # "EOF" =>
                   LET r == declaration(ParserAt(from))
                   IN  r.sig = "ok" /\ r.current > from
             /\ LET b == BlockLoop(ParserAt(from), <<>>)
                IN  b.sig = "ok" /\ AtBraceOrEnd(b) /\ b.current >= from
             /\ LET m == MethodsLoop(ParserAt(from), <<>>)
                IN  /\ m.sig \in {"ok", "ParseError"}
                    /\ m.sig = "ok" => AtBraceOrEnd(m)
                    /\ m.current >= from

\* C29: Parser.parse terminates on every token list that ends with EOF:
\* every call of declaration, whether it returns a statement or recovers
\* through synchronize, consumes at least one token when not at EOF, the
\* loops of block and of the class body stop at `}' or at EOF, and parse
\* returns in the end.
ParseTerminates ==
    /\ []ParserAdvances
    /\ <>(parser.pc = "returned")

\* C29 witness: parse has returned after a declaration that recovered
\* through synchronize past a `;', one that returned a statement, a block
\* whose loop stopped at `}' and a class body whose loop stopped at EOF.
ParseReturnedAfterRecovery ==
    /\ parser.pc = "returned"
    /\ \E i, j, k \in Declared :
          /\ parser.log[i].v = "None"
          /\ parser.tokens[parser.log[i].to].type = "SEMICOLON"
          /\ parser.log[j].v = "Print"
          /\ parser.tokens[parser.log[j].to + 1].type = "RIGHT_BRACE"
          /\ parser.log[k].v = "None"
          /\ parser.tokens[parser.log[k].to + 1].type = "EOF"
    /\ \E i \in 1..Len(parser.out) :
          parser.out[i] \in {"Parse error at line 1: Expected '}' after class body."}


RECURSIVE SentinelsInListsOnly(_), ListOfStatements(_, _), Stripped(_),
          StrippedList(_, _)

\* None occurs in statement stmt, which is not None itself, only as an
\* element of the statement list of a block or of a function or method
\* body (and as the else branch an if statement does not have).
SentinelsInListsOnly(stmt) ==
    CASE stmt.k = "Block" -> ListOfStatements(stmt.statements, 1)
      [] stmt.k = "Function" -> ListOfStatements(stmt.body, 1)
      [] stmt.k = "Class" ->
            \A i \in 1..Len(stmt.methods) :
               /\ stmt.methods[i].k = "Function"
               /\ SentinelsInListsOnly(stmt.methods[i])
      [] stmt.k = "If" ->
            /\ stmt.then_branch.k # "None"
            /\ SentinelsInListsOnly(stmt.then_branch)
            /\ stmt.else_branch.k # "None" => SentinelsInListsOnly(stmt.else_branch)
      [] stmt.k = "While" ->
            /\ stmt.body.k # "None"
            /\ SentinelsInListsOnly(stmt.body)
      [] stmt.k \in {"Expression", "Print", "Var", "Return"} -> TRUE
      [] OTHER -> FALSE

\* The same of every statement of a list, from its i-th on.
ListOfStatements(stmts, i) ==
    \/ i > Len(stmts)
    \/ /\ stmts[i].k # "None" => SentinelsInListsOnly(stmts[i])
       /\ ListOfStatements(stmts, i + 1)

\* A statement with the None entries of its statement lists taken out.
Stripped(stmt) ==
    CASE stmt.k = "Block" -> Block(StrippedList(stmt.statements, 1))
      [] stmt.k = "Function" ->
            Function(stmt.name, stmt.params, StrippedList(stmt.body, 1))
      [] stmt.k = "Class" ->
            Class(stmt.name, stmt.superclass,
                  [i \in 1..Len(stmt.methods) |-> Stripped(stmt.methods[i])])
      [] stmt.k = "If" ->
            If(stmt.condition, Stripped(stmt.then_branch), Stripped(stmt.else_branch))
      [] stmt.k = "While" -> While(stmt.condition, Stripped(stmt.body))
      [] OTHER -> stmt

\* A statement list, from its i-th entry on, without its None entries.
StrippedList(stmts, i) ==
    IF i > Len(stmts) THEN <<>>
    ELSE IF stmts[i].k = "None" THEN StrippedList(stmts, i + 1)
    ELSE <<Stripped(stmts[i])>> \o StrippedList(stmts, i + 1)

\* statement never returns None, and function("method") returns a
\* function, whichever token of the list they are called at.
StatementNeverNone ==
    \A from \in 0..(Len(parser.tokens) - 1) :
       /\ LET r == statement(ParserAt(from))
          IN  r.sig = "ok" => r.val.k # "None"
       /\ LET r == function(ParserAt(from), "method")
          IN  r.sig = "ok" => r.val.k = "Function"

\* C23: the None entries that error recovery produces occur only as
\* elements of statement lists (top level, block, function or method body),
\* never as body or branch of if, while or for nor as a class method; and
\* the resolver and the interpreter skip each of them without visiting it
\* and without a diagnostic and go on with the entries after it: resolving
\* and running the statements gives what resolving and running them
\* without their None entries gives.
SentinelsAreSkipped ==
    /\ parser.steps = 0 => StatementNeverNone
    /\ ListOfStatements(parser.statements, 1)
    /\ ListOfStatements(statements, 1)
    /\ pc \in {"resolved", "interpret", "returned"} =>
          locals = resolve_statements(StrippedList(statements, 1),
                                      NewResolver([x \in {} |-> 0])).locals
    /\ pc = "returned" =>
          LET ref == RunOf(StrippedList(statements, 1))
          IN  /\ stdout = Lines("parse error", parser.out) \o ref.out
              /\ log = ref.log
              /\ envs[GlobalsEnv].values = ref.envs[GlobalsEnv].values
              /\ Len(envs) = Len(ref.envs)
              /\ exception = "none" /\ ref.sig \in {"ok", "RuntimeError"}

\* C23 witness: a method whose body begins with a None entry has been
\* called and has run the print statement after that entry.
StatementAfterSentinelHasRun ==
    /\ pc = "returned"
    /\ Len(statements) = 2
    /\ statements[1].k = "Class"
    /\ Len(statements[1].methods) = 1
    /\ Len(statements[1].methods[1].body) = 2
    /\ statements[1].methods[1].body[1].k = "None"
    /\ Printed = <<"4">>

=============================================================================
